---- MODULE Spec2Model ----
(***************************************************************************)
(* Subprocess lifecycle manager and adapter contract of the Perth          *)
(* integration layer (zellij-server/src/integrations).                     *)
(*                                                                         *)
(* One SubprocessManager supervises one external process: spawn, read      *)
(* loop, crash, backoff, respawn, terminal failure, stop.  The manager is  *)
(* driven either directly by a client that owns it (variant "manager"),    *)
(* or by a BloodbankAdapter that keeps it behind a mutex (variant          *)
(* "bloodbank").  MockAdapter (variant "mock") is the test double, and     *)
(* variant "backoff" evaluates calculate_backoff on every u8 input and     *)
(* variant "call" runs one one-shot call().                                *)
(***************************************************************************)
EXTENDS Integers, Sequences, FiniteSets, TLC

\* ---------------------------------------------------------------- bounds
\* Largest max_restarts a configuration is drawn with.
MaxRestartsBound == 3
\* Largest channel_capacity a configuration is drawn with.
MaxCapacity == 2
\* Number of stdout lines the supervised processes write in one behaviour.
MaxLines == 2
\* Number of calls (subscribe or stop, in any mix and overlap) issued on one
\* adapter (Bloodbank or Mock).
MaxCalls == 2
\* Number of call, subscribe, stop and reset invocations on one MockAdapter,
\* and of operations on one NotificationBus.
MaxOps == 3
\* Number of raw lines sent to one parsing task of subscribe_events.
MaxRawLines == 3

\* ------------------------------------------------------- program constants
\* Largest value of a u8 (restart_count, max_restarts, calculate_backoff's
\* argument).
U8Max == 255
\* AdapterConfig::default().call_timeout_secs
DefaultCallTimeout == 30
\* Capacity of the channel MockAdapter::subscribe creates.
MockChannelCapacity == 100

VARIABLES
    \* which system the behaviour is about, and its AdapterConfig
    variant, max_restarts, channel_capacity, call_timeout_secs,
    \* SubprocessManager: position of start()/stop(), and its fields
    pc, restart_count, is_healthy, child, shutdown_tx, shutdown_sent,
    \* run_with_restart's local last_error, the last results returned
    last_error, start_result, stop_result,
    \* the bounded output channel (output_tx / output_rx) and the lines its
    \* consumer has taken from it
    output_q, rx_closed, received,
    \* the operating system: the process behind self.child, its stdout pipe,
    \* a freshly spawned process not yet stored in self.child
    proc, stdout_open, pipe, exit_code, newproc, produced,
    \* history of the current manager instance; attempts and delays are the
    \* spawn attempts and backoff sleeps of the current start() call since
    \* the last stdout line was read (all of them when none was read);
    \* start_count is restart_count as start() found it, count_at_line is
    \* restart_count as the last line read found it; start_args is the
    \* argument vector of the current (or last) start() call, spawned_args
    \* the argument vectors its spawn attempts were made with
    attempts, delays, started, terminal, reset_since, stop_signals,
    line_seen, line_since_crash, start_count, start_args,
    spawned_args, count_at_line,
    \* BloodbankAdapter
    lock, waitq, unpolled, is_running, slot_mgr, caller_rx, mgr_ctr,
    calls_left, stop_saw_running, adapter_stop_result,
    \* MockAdapter: its fields, the result of its last call(), the operations
    \* invoked on it so far, and its latest subscription: the lines the
    \* spawned task took and has still to send, the channel, and the lines
    \* the returned receiver has yielded
    mock_healthy, stop_count, call_count, subscribe_count, last_call_args,
    last_subscribe_args, call_response, subscribe_lines, mock_call_result,
    mock_history, replay_lines, replay_rest, mock_q, mock_tx_open,
    mock_rx_open, mock_received,
    \* calculate_backoff applied to one input
    bk_in, bk_out,
    \* one call(): its position, the command's behaviour, what the command
    \* has written so far, the spawn attempts made, the result returned
    call_pc, call_cmd, call_captured, call_spawns, call_result,
    \* the parsing task of subscribe_events: its position, the raw channel it
    \* reads, the event it is sending, the event channel, and what it has
    \* taken and forwarded so far
    ev_pc, raw_q, raw_tx_open, raw_sent, ev_pending, event_q, event_rx_open,
    raw_taken, forwarded,
    \* NotificationBus: its map, the operations invoked so far, the value
    \* the last operation returned
    pending_notifications, bus_history, bus_result,
    \* the select! branch of read_loop dispatched last and the event it
    \* handled; turn flips at every dispatch.  The record is kept in the
    \* behaviours that start from InitLoop only
    dispatched

cfgVars == <<variant, max_restarts, channel_capacity, call_timeout_secs>>
mgrVars == <<pc, restart_count, is_healthy, child, shutdown_tx, shutdown_sent,
             last_error, start_result, stop_result>>
chanVars == <<output_q, rx_closed, received>>
osVars == <<proc, stdout_open, pipe, exit_code, newproc, produced>>
histVars == <<attempts, delays, started, terminal, reset_since, stop_signals,
              line_seen, line_since_crash, start_count, start_args,
              spawned_args, count_at_line>>
adapterVars == <<lock, waitq, unpolled, is_running, slot_mgr, caller_rx,
                 mgr_ctr, calls_left, stop_saw_running,
                 adapter_stop_result>>
mockCounters == <<stop_count, call_count, subscribe_count, last_call_args,
                  last_subscribe_args>>
mockReplay == <<replay_lines, replay_rest, mock_q, mock_tx_open, mock_rx_open,
                mock_received>>
mockVars == <<mock_healthy, mockCounters, call_response, subscribe_lines,
              mock_call_result, mock_history, mockReplay>>
bkVars == <<bk_in, bk_out>>
callVars == <<call_pc, call_cmd, call_captured, call_spawns, call_result>>
evVars == <<ev_pc, raw_q, raw_tx_open, raw_sent, ev_pending, event_q,
            event_rx_open, raw_taken, forwarded>>
busVars == <<pending_notifications, bus_history, bus_result>>
loopVars == <<dispatched>>
vars == <<cfgVars, mgrVars, chanVars, osVars, histVars, adapterVars,
          mockVars, bkVars, callVars, evVars, busVars, loopVars>>

\* Everything outside one SubprocessManager and its process.
outsideManager == <<cfgVars, adapterVars, mockVars, bkVars, callVars, evVars,
                    busVars>>
\* The same and the record of read_loop's dispatches.
outsideLoop == <<outsideManager, loopVars>>

\* ---------------------------------------------------------------- helpers
Min(a, b) == IF a <= b THEN a ELSE b

\* u8::saturating_sub
saturating_sub(a, b) == IF a >= b THEN a - b ELSE 0

\* AtomicU8::fetch_add wraps around.
fetch_add(a, b) == (a + b) % (U8Max + 1)

\* An IntegrationError as run_with_restart remembers it (e.to_string()).
Error(kind, code, text) == [kind |-> kind, code |-> code, text |-> text]
NoError == Error("none", 0, "")
NoResult == [kind |-> "none", attempts |-> 0, last_error |-> NoError]

\* Exit codes a supervised process ends with.
ExitCodes == {0, 1}

\* ExitStatus::code(): Some(code) of a process that exited, None of one
\* that a signal ended (and of one that has not ended).
Some(code) == <<code>>
NoCode == <<>>
StatusCodes == {Some(code) : code \in ExitCodes} \cup {NoCode}

\* Option::unwrap_or
unwrap_or_zero(option, default) == IF option = NoCode THEN 0 ELSE option[1]
unwrap_or(option, default) == IF option = NoCode THEN default ELSE option[1]

\* calculate_backoff: 1u64 << restart_count.saturating_sub(1).min(3), seconds.
calculate_backoff_capFour(k) == 2 ^ Min(saturating_sub(k, 1), 4)
calculate_backoff(k) == 2 ^ Min(saturating_sub(k, 1), 3)

\* Sender::try_send on the bounded channel: the line is queued unless the
\* receiver is gone or the queue already holds channel_capacity lines; on
\* either error the caller only logs, so the line is dropped.
try_send_front(q, closed, line) ==
    IF closed \/ Len(q) >= channel_capacity THEN q ELSE <<line>> \o q
try_send_dropOldest(q, closed, line) ==
    IF closed THEN q
    ELSE IF Len(q) >= channel_capacity THEN Append(Tail(q), line)
    ELSE Append(q, line)
try_send(q, closed, line) ==
    IF closed \/ Len(q) >= channel_capacity THEN q ELSE Append(q, line)

\* Argument vectors start() is called with: none, and the one
\* subscribe_events passes (bloodbank.rs line 184).
SubscribeEventsArgs == <<"subscribe", "--format", "json">>
StartArgs == {<<>>, SubscribeEventsArgs}
NoArgs == "none"

\* The fields of a manager right after SubprocessManager::new.
ManagerNew ==
    /\ pc = "idle" /\ restart_count = 0 /\ is_healthy = FALSE
    /\ child = "None" /\ shutdown_tx = FALSE /\ shutdown_sent = FALSE
    /\ last_error = NoError /\ start_result = NoResult /\ stop_result = "none"
    /\ output_q = <<>> /\ received = <<>>
    /\ proc = "none" /\ stdout_open = FALSE /\ pipe = <<>> /\ exit_code = NoCode
    /\ newproc = FALSE
    /\ attempts = 0 /\ delays = <<>> /\ started = FALSE /\ terminal = FALSE
    /\ reset_since = FALSE /\ stop_signals = {} /\ line_seen = FALSE
    /\ line_since_crash = FALSE /\ start_count = 0 /\ count_at_line = 0
    /\ start_args = NoArgs /\ spawned_args = {}

\* No record of read_loop's dispatches is kept.
NotTraced == [branch |-> "untraced", event |-> "none", turn |-> 0]
LoopIdle == dispatched = NotTraced

\* read_loop is entered (line 258): its loop has dispatched nothing yet.
NoDispatch == [branch |-> "none", event |-> "none", turn |-> 0]
loop_entered ==
    dispatched' = IF dispatched.branch = "untraced" THEN dispatched
                  ELSE NoDispatch

\* tokio::select! (line 259) dispatches one of its branches, which handles
\* one event.
select(branch, event) ==
    dispatched' = IF dispatched.branch = "untraced" THEN dispatched
                  ELSE [branch |-> branch, event |-> event,
                        turn |-> 1 - dispatched.turn]

\* start()'s future is being polled: its shutdown_rx exists.
InStart == pc \in {"loop_top", "backoff", "spawn", "spawned", "reading"}

\* Number of live child processes of the manager: the one behind self.child
\* and one that spawn() has created and line 189 has not stored yet.
LiveChildren == (IF proc = "running" THEN 1 ELSE 0) + (IF newproc THEN 1 ELSE 0)

\* ------------------------------------------------ SubprocessManager::start
\* start() (lines 147-152): a fresh oneshot channel replaces shutdown_tx and
\* run_with_restart begins with last_error = None.  The caller needs
\* &mut self, so no other operation of this manager is in progress.
start_resetsCount(args) ==
    /\ pc = "idle"
    /\ start_args' = args /\ spawned_args' = {}
    /\ shutdown_tx' = TRUE /\ shutdown_sent' = FALSE
    /\ last_error' = NoError
    /\ restart_count' = 0
    /\ pc' = "loop_top"
    /\ attempts' = 0 /\ delays' = <<>> /\ started' = TRUE
    /\ line_seen' = FALSE /\ start_count' = 0 /\ count_at_line' = 0
    /\ start_result' = NoResult /\ stop_result' = "none"
    /\ stop_signals' = {}
    /\ UNCHANGED <<is_healthy, child, chanVars, osVars,
                   terminal, reset_since, line_since_crash>>
start(args) ==
    /\ pc = "idle"
    /\ start_args' = args /\ spawned_args' = {}
    /\ shutdown_tx' = TRUE /\ shutdown_sent' = FALSE
    /\ last_error' = NoError
    /\ pc' = "loop_top"
    /\ attempts' = 0 /\ delays' = <<>> /\ started' = TRUE
    /\ line_seen' = FALSE /\ start_count' = restart_count
    /\ count_at_line' = 0
    /\ start_result' = NoResult /\ stop_result' = "none"
    /\ stop_signals' = {}
    /\ UNCHANGED <<restart_count, is_healthy, child, chanVars, osVars,
                   terminal, reset_since, line_since_crash>>

\* Line 169: last_error.unwrap_or_else(|| "Unknown error").
unwrap_or_else_keepsNone(option) == option
unwrap_or_else(option) ==
    IF option = NoError THEN Error("Unknown error", 0, "") ELSE option

\* The ceiling check of line 165.
ceiling_reached_offByOne(count) == count > max_restarts
ceiling_reached(count) == count >= max_restarts

\* run_with_restart, top of the loop (lines 163-184): the ceiling check,
\* then the backoff sleep when this is a restart.
run_with_restart_top_firstRestartAtOnce ==
    /\ pc = "loop_top"
    /\ IF ceiling_reached(restart_count)
       THEN /\ is_healthy' = FALSE
            /\ start_result' =
                 [kind |-> "MaxRestartsExceeded", attempts |-> restart_count,
                  last_error |-> unwrap_or_else(last_error)]
            /\ pc' = "idle" /\ terminal' = TRUE
            /\ last_error' = NoError
            /\ UNCHANGED delays
       ELSE /\ pc' = IF restart_count > 1 THEN "backoff" ELSE "spawn"
            /\ delays' = IF restart_count > 1
                         THEN Append(delays, calculate_backoff(restart_count))
                         ELSE delays
            /\ UNCHANGED <<is_healthy, start_result, terminal, last_error>>
    /\ UNCHANGED <<restart_count, child, shutdown_tx, shutdown_sent,
                   stop_result, chanVars, osVars, attempts, started,
                   reset_since, stop_signals, line_seen, line_since_crash,
                   start_count, start_args,
                   spawned_args, count_at_line, outsideLoop>>
run_with_restart_top ==
    /\ pc = "loop_top"
    /\ IF ceiling_reached(restart_count)
       THEN /\ is_healthy' = FALSE
            /\ start_result' =
                 [kind |-> "MaxRestartsExceeded", attempts |-> restart_count,
                  last_error |-> unwrap_or_else(last_error)]
            /\ pc' = "idle" /\ terminal' = TRUE
            /\ last_error' = NoError
            /\ UNCHANGED delays
       ELSE /\ pc' = IF restart_count > 0 THEN "backoff" ELSE "spawn"
            /\ delays' = IF restart_count > 0
                         THEN Append(delays, calculate_backoff(restart_count))
                         ELSE delays
            /\ UNCHANGED <<is_healthy, start_result, terminal, last_error>>
    /\ UNCHANGED <<restart_count, child, shutdown_tx, shutdown_sent,
                   stop_result, chanVars, osVars, attempts, started,
                   reset_since, stop_signals, line_seen, line_since_crash,
                   start_count, start_args,
                   spawned_args, count_at_line, outsideLoop>>

\* sleep(backoff).await (line 183) elapses.
backoff_elapsed ==
    /\ pc = "backoff"
    /\ pc' = "spawn"
    /\ UNCHANGED <<restart_count, is_healthy, child, shutdown_tx, shutdown_sent,
                   last_error, start_result, stop_result, chanVars, osVars,
                   histVars, outsideLoop>>

\* A crash outcome handled by run_with_restart (lines 203-207, 210-214):
\* the error is remembered, restart_count is incremented, the loop continues.
crashed_notCounted(err) ==
    /\ last_error' = err
    /\ restart_count' = restart_count
    /\ pc' = "loop_top"
crashed(err) ==
    /\ last_error' = err
    /\ restart_count' = fetch_add(restart_count, 1)
    /\ pc' = "loop_top"

\* spawn_subprocess (lines 220-234) as called at line 187.  The operating
\* system either creates the process or refuses (executable absent, or any
\* other error); a refusal is a crash outcome.
spawn_subprocess ==
    /\ pc = "spawn"
    /\ attempts' = attempts + 1
    /\ spawned_args' = spawned_args \cup {start_args}
    /\ \/ /\ newproc' = TRUE
          /\ pc' = "spawned"
          /\ UNCHANGED <<restart_count, last_error>>
       \/ /\ \E kind \in {"CliNotFound", "SpawnFailed"} :
                crashed(Error(kind, 0, ""))
          /\ UNCHANGED newproc
    /\ UNCHANGED <<is_healthy, child, shutdown_tx, shutdown_sent, start_result,
                   stop_result, chanVars, proc, stdout_open, pipe, exit_code,
                   produced, delays, started, terminal, reset_since,
                   stop_signals, line_seen, line_since_crash,
                   start_count, start_args, count_at_line, outsideLoop>>

\* Lines 189-190: the new Child is stored in self.child and the health flag
\* is set.  The Child stored before is dropped here; it was spawned with
\* kill_on_drop(true), so its process is killed.  read_loop then takes the
\* new child's stdout and stderr (lines 241-256).
store_child ==
    /\ pc = "spawned"
    /\ child' = "Some" /\ is_healthy' = TRUE
    /\ proc' = "running" /\ stdout_open' = TRUE /\ pipe' = <<>>
    /\ newproc' = FALSE /\ exit_code' = NoCode
    /\ pc' = "reading" /\ loop_entered
    /\ UNCHANGED <<restart_count, shutdown_tx, shutdown_sent, last_error,
                   start_result, stop_result, chanVars, produced,
                   histVars, outsideManager>>

\* ------------------------------------------------------------- read_loop
\* The reader of the child's stdout is dropped when read_loop returns: what
\* the pipe still holds is lost and the process can write no more to it.
reader_dropped == pipe' = <<>> /\ stdout_open' = FALSE

\* Line 265: a line that was read resets the restart count.
count_after_line_kept(count) == count
count_after_line(count) == 0

\* select! branch 1, Ok(Some(line)) (lines 263-271): restart_count is reset
\* and the line is offered to the output channel with try_send.
read_stdout_line_resetsOnDelivery ==
    /\ pc = "reading" /\ pipe # <<>>
    /\ select("stdout", "line")
    /\ restart_count' = IF rx_closed \/ Len(output_q) >= channel_capacity
                        THEN restart_count
                        ELSE count_after_line(restart_count)
    /\ output_q' = try_send(output_q, rx_closed, Head(pipe))
    /\ pipe' = Tail(pipe)
    /\ line_seen' = TRUE /\ line_since_crash' = TRUE
    /\ count_at_line' = restart_count
    /\ attempts' = 0 /\ delays' = <<>>
    /\ UNCHANGED <<pc, is_healthy, child, shutdown_tx, shutdown_sent,
                   last_error, start_result, stop_result, rx_closed,
                   received, proc, stdout_open, exit_code, newproc, produced,
                   started, terminal, reset_since, stop_signals,
                   start_count, start_args, spawned_args, outsideManager>>
read_stdout_line ==
    /\ pc = "reading" /\ pipe # <<>>
    /\ select("stdout", "line")
    /\ restart_count' = count_after_line(restart_count)
    /\ output_q' = try_send(output_q, rx_closed, Head(pipe))
    /\ pipe' = Tail(pipe)
    /\ line_seen' = TRUE /\ line_since_crash' = TRUE
    /\ count_at_line' = restart_count
    /\ attempts' = 0 /\ delays' = <<>>
    /\ UNCHANGED <<pc, is_healthy, child, shutdown_tx, shutdown_sent,
                   last_error, start_result, stop_result, rx_closed,
                   received, proc, stdout_open, exit_code, newproc, produced,
                   started, terminal, reset_since, stop_signals,
                   start_count, start_args, spawned_args, outsideManager>>

\* select! branch 1, Ok(None) (lines 272-278): end of stream, reported as
\* ProcessExited with code 0 whatever the process did.
read_stdout_eof_returnsOk ==
    /\ pc = "reading" /\ pipe = <<>> /\ ~stdout_open
    /\ select("stdout", "eof")
    /\ start_result' = [kind |-> "Ok", attempts |-> 0, last_error |-> NoError]
    /\ pc' = "idle" /\ last_error' = NoError
    /\ reader_dropped
    /\ UNCHANGED <<restart_count, is_healthy, child, shutdown_tx,
                   shutdown_sent, stop_result, chanVars, proc, exit_code,
                   newproc, produced, histVars, outsideManager>>
read_stdout_eof ==
    /\ pc = "reading" /\ pipe = <<>> /\ ~stdout_open
    /\ select("stdout", "eof")
    /\ crashed(Error("ProcessExited", 0, "Process ended unexpectedly"))
    /\ reader_dropped
    /\ line_since_crash' = FALSE
    /\ UNCHANGED <<is_healthy, child, shutdown_tx, shutdown_sent, start_result,
                   stop_result, chanVars, proc, exit_code, newproc, produced,
                   attempts, delays, started, terminal, reset_since,
                   stop_signals, line_seen,
                   start_count, start_args,
                   spawned_args, count_at_line, outsideManager>>

\* select! branch 1, Err(e) (lines 279-281): the bytes the process wrote do
\* not decode as a line of text, or the read fails.
read_stdout_err ==
    /\ pc = "reading" /\ pipe # <<>>
    /\ select("stdout", "err")
    /\ crashed(Error("IoError", 0, ""))
    /\ reader_dropped
    /\ line_since_crash' = FALSE
    /\ UNCHANGED <<is_healthy, child, shutdown_tx, shutdown_sent, start_result,
                   stop_result, chanVars, proc, exit_code, newproc, produced,
                   attempts, delays, started, terminal, reset_since,
                   stop_signals, line_seen,
                   start_count, start_args,
                   spawned_args, count_at_line, outsideManager>>

\* select! branch 2 (lines 286-298): a stderr line, end of stream or read
\* error is logged and nothing else.
StderrEvents == {"line", "eof", "err"}
read_stderr_forwards ==
    /\ pc = "reading"
    /\ \E event \in StderrEvents :
          /\ select("stderr", event)
          /\ output_q' = IF event = "line"
                          THEN try_send(output_q, rx_closed, 0)
                          ELSE output_q
    /\ UNCHANGED <<mgrVars, rx_closed, received, osVars, histVars,
                   outsideManager>>
read_stderr ==
    /\ pc = "reading"
    /\ \E event \in StderrEvents : select("stderr", event)
    /\ UNCHANGED <<mgrVars, chanVars, osVars, histVars, outsideManager>>

\* select! branch 3 (lines 301-320): try_wait on the child.
health_check ==
    /\ pc = "reading" /\ child = "Some"
    /\ \/ /\ proc = "exited"
          /\ select("tick", "exited")
          /\ crashed(Error("ProcessExited", unwrap_or(exit_code, -1),
                           "Process exited during health check"))
          /\ proc' = "reaped" /\ exit_code' = NoCode
          /\ reader_dropped
          /\ line_since_crash' = FALSE
          /\ UNCHANGED is_healthy
       \/ /\ proc = "running"
          /\ select("tick", "running")
          /\ is_healthy' = TRUE
          /\ UNCHANGED <<pc, restart_count, last_error, proc, pipe,
                         stdout_open, exit_code, line_since_crash>>
    /\ UNCHANGED <<child, shutdown_tx, shutdown_sent, start_result,
                   stop_result, chanVars, newproc, produced,
                   attempts, delays, started, terminal, reset_since,
                   stop_signals, line_seen,
                   start_count, start_args,
                   spawned_args, count_at_line, outsideManager>>

\* select! branch 4 (lines 323-325) and lines 199-202: the shutdown signal
\* ends start() with Ok(()).  The sender is only used by stop(), which needs
\* &mut self like start(): shutdown_sent is never TRUE while the loop runs.
shutdown_requested_asCrash ==
    /\ pc = "reading" /\ shutdown_sent
    /\ select("shutdown", "signal")
    /\ crashed(Error("ShutdownRequested", 0, ""))
    /\ reader_dropped
    /\ line_since_crash' = FALSE
    /\ UNCHANGED <<is_healthy, child, shutdown_tx, shutdown_sent, start_result,
                   stop_result, chanVars, proc, exit_code, newproc, produced,
                   attempts, delays, started, terminal, reset_since,
                   stop_signals, line_seen, start_count, start_args,
                   spawned_args, count_at_line,
                   outsideManager>>
shutdown_requested ==
    /\ pc = "reading" /\ shutdown_sent
    /\ select("shutdown", "signal")
    /\ is_healthy' = FALSE
    /\ start_result' = [kind |-> "Ok", attempts |-> 0, last_error |-> NoError]
    /\ pc' = "idle" /\ last_error' = NoError
    /\ reader_dropped
    /\ UNCHANGED <<restart_count, child, shutdown_tx, shutdown_sent,
                   stop_result, chanVars, proc, exit_code, newproc, produced,
                   histVars, outsideManager>>

\* ------------------------------------------------- the supervised process
\* The process writes the next line to its stdout.
proc_writes ==
    /\ proc = "running" /\ stdout_open /\ produced < MaxLines
    /\ produced' = produced + 1
    /\ pipe' = Append(pipe, produced + 1)
    /\ UNCHANGED <<mgrVars, chanVars, proc, stdout_open, exit_code, newproc,
                   histVars, outsideLoop>>

\* The process closes its stdout and keeps running.
proc_closes_stdout ==
    /\ proc = "running" /\ stdout_open
    /\ stdout_open' = FALSE
    /\ UNCHANGED <<mgrVars, chanVars, proc, pipe, exit_code, newproc, produced,
                   histVars, outsideLoop>>

\* The process exits.
proc_exits ==
    /\ proc = "running"
    /\ \E code \in StatusCodes : exit_code' = code
    /\ proc' = "exited" /\ stdout_open' = FALSE
    /\ UNCHANGED <<mgrVars, chanVars, pipe, newproc, produced, histVars,
                   outsideLoop>>

\* -------------------------------------------------- SubprocessManager::stop
\* stop(), lines 335-357 and 383-385: the shutdown sender is taken and used
\* (the send reaches a receiver only while start() is being polled), then,
\* if a Child is held, SIGTERM goes to its pid (Child::id() is None once the
\* exit status was collected) and stop() waits for it under
\* shutdown_timeout.  Without a Child it returns Ok(()) at once.
stop_begin ==
    /\ pc = "idle"
    /\ shutdown_tx' = FALSE
    /\ shutdown_sent' = (shutdown_tx /\ InStart)
    /\ IF child = "Some"
       THEN /\ stop_signals' = IF proc \in {"running", "exited"}
                               THEN {"SIGTERM"} ELSE {}
            /\ pc' = "stop_wait"
            /\ stop_result' = "none"
       ELSE /\ stop_signals' = {}
            /\ pc' = "idle"
            /\ stop_result' = "Ok"
    /\ UNCHANGED <<restart_count, is_healthy, child, last_error, start_result,
                   chanVars, osVars, attempts, delays, started, terminal,
                   reset_since, line_seen, line_since_crash,
                   start_count, start_args, spawned_args, count_at_line>>

\* stop(), lines 358-382: the wait ended because the process exited (or the
\* wait failed), or it timed out and the process is killed.  Every arm
\* clears self.child and the health flag and returns Ok(()).
stop_wait_done_alwaysKills ==
    /\ pc = "stop_wait"
    /\ stop_signals' = stop_signals \cup {"SIGKILL"}
    /\ child' = "None" /\ is_healthy' = FALSE
    /\ proc' = "none" /\ exit_code' = NoCode /\ reader_dropped
    /\ pc' = "idle" /\ stop_result' = "Ok"
    /\ UNCHANGED <<restart_count, shutdown_tx, shutdown_sent, last_error,
                   start_result, chanVars, newproc, produced,
                   attempts, delays, started, terminal, reset_since,
                   line_seen, line_since_crash,
                   start_count, start_args,
                   spawned_args, count_at_line, outsideLoop>>
stop_wait_done ==
    /\ pc = "stop_wait"
    /\ \/ /\ proc # "running"
          /\ UNCHANGED stop_signals
       \/ /\ proc = "running"
          /\ stop_signals' = stop_signals \cup {"SIGKILL"}
    /\ child' = "None" /\ is_healthy' = FALSE
    /\ proc' = "none" /\ exit_code' = NoCode /\ reader_dropped
    /\ pc' = "idle" /\ stop_result' = "Ok"
    /\ UNCHANGED <<restart_count, shutdown_tx, shutdown_sent, last_error,
                   start_result, chanVars, newproc, produced,
                   attempts, delays, started, terminal, reset_since,
                   line_seen, line_since_crash,
                   start_count, start_args,
                   spawned_args, count_at_line, outsideLoop>>

\* reset_restart_count() (lines 408-410).
reset_restart_count ==
    /\ pc = "idle"
    /\ restart_count' = 0
    /\ reset_since' = (reset_since \/ terminal)
    /\ UNCHANGED <<pc, is_healthy, child, shutdown_tx, shutdown_sent,
                   last_error, start_result, stop_result, chanVars, osVars,
                   attempts, delays, started, terminal, stop_signals,
                   line_seen, line_since_crash, start_count, start_args,
                   spawned_args, count_at_line>>

\* What becomes of the process behind a Child that is dropped: the Child
\* was spawned with kill_on_drop(true) (line 224) and Drop calls start_kill
\* on it (lines 413-420), so the process is killed and is no more.
process_after_drop_leaks(p) == p
process_after_drop(p) == "none"

\* The manager is destroyed.  Its owner can drop it whenever no operation
\* borrows it: between operations, or after dropping the future of a
\* start() or stop() that is suspended (in the backoff sleep, in the select!
\* of read_loop, in the wait of stop()).  The reader of the child's stdout
\* goes with the future; a process that was still running gets SIGKILL.
\* Of the manager's fields and history only child and stop_signals are kept,
\* to tell what the destruction found and did; the receiver of the output
\* channel is the consumer's and still yields what was queued.
manager_dropped ==
    /\ pc \in {"idle", "backoff", "reading", "stop_wait"}
    /\ pc' = "dropped"
    /\ proc' = process_after_drop(proc)
    /\ stop_signals' = IF child = "Some" /\ proc = "running"
                       THEN {"SIGKILL"} ELSE {}
    /\ reader_dropped
    /\ restart_count' = 0 /\ is_healthy' = FALSE
    /\ shutdown_tx' = FALSE /\ shutdown_sent' = FALSE
    /\ last_error' = NoError /\ start_result' = NoResult
    /\ stop_result' = "none" /\ exit_code' = NoCode
    /\ attempts' = 0 /\ delays' = <<>> /\ terminal' = FALSE
    /\ reset_since' = FALSE /\ line_seen' = FALSE
    /\ line_since_crash' = FALSE /\ start_count' = 0 /\ count_at_line' = 0
    /\ start_args' = NoArgs /\ spawned_args' = {}
    /\ UNCHANGED <<child, chanVars, newproc, produced, started>>

\* is_healthy() and restart_count() (lines 398-405) load the two atomics.
manager_is_healthy == is_healthy
manager_restart_count == restart_count

\* ------------------------------------------ a client that owns the manager
\* The client holds the manager by value: start() and stop() borrow it
\* mutably, so it calls one operation at a time, between operations.
client_start ==
    variant = "manager" /\ start(<<>>) /\ UNCHANGED outsideLoop
client_start_with_args ==
    /\ variant = "manager"
    /\ \E args \in StartArgs : start(args)
    /\ UNCHANGED outsideLoop
client_stop ==
    variant = "manager" /\ stop_begin /\ UNCHANGED outsideLoop
client_reset_restart_count ==
    variant = "manager" /\ reset_restart_count /\ UNCHANGED outsideLoop
client_drops_manager ==
    variant = "manager" /\ manager_dropped /\ UNCHANGED outsideLoop

\* The consumer takes the next line from output_rx.
consumer_recv ==
    /\ variant = "manager" /\ ~rx_closed /\ output_q # <<>>
    /\ received' = Append(received, Head(output_q))
    /\ output_q' = Tail(output_q)
    /\ UNCHANGED <<mgrVars, rx_closed, osVars, histVars, outsideLoop>>

\* The consumer drops output_rx.
consumer_drops ==
    /\ variant = "manager" /\ ~rx_closed
    /\ rx_closed' = TRUE /\ output_q' = <<>>
    /\ UNCHANGED <<received, mgrVars, osVars, histVars, outsideLoop>>

\* ------------------------------------------------------- BloodbankAdapter
\* The adapter keeps Option<SubprocessManager> behind a tokio Mutex, which
\* serves its waiters in arrival order.  waitq holds the calls and tasks
\* waiting in manager.lock().await; lock names who holds the guard.

\* The state SubprocessManager::new leaves, for the manager that replaces
\* the one in the adapter's slot.  Replacing drops the old manager and with
\* it the Child it holds (Drop, lines 413-420, and kill_on_drop).
manager_replaced ==
    /\ pc' = "idle" /\ restart_count' = 0 /\ is_healthy' = FALSE
    /\ child' = "None" /\ shutdown_tx' = FALSE /\ shutdown_sent' = FALSE
    /\ last_error' = NoError /\ start_result' = NoResult
    /\ stop_result' = "none"
    /\ output_q' = <<>> /\ received' = <<>>
    /\ proc' = "none" /\ stdout_open' = FALSE /\ pipe' = <<>>
    /\ exit_code' = NoCode /\ newproc' = FALSE
    /\ attempts' = 0 /\ delays' = <<>> /\ started' = FALSE
    /\ terminal' = FALSE /\ reset_since' = FALSE /\ stop_signals' = {}
    /\ line_seen' = FALSE /\ line_since_crash' = FALSE /\ start_count' = 0
    /\ count_at_line' = 0
    /\ start_args' = NoArgs /\ spawned_args' = {}

\* A manager exists as long as it is the one in the adapter's slot; the
\* receiver of a manager's channel yields lines only while its manager,
\* the only sender, exists.
caller_rx_open == caller_rx # 0 /\ caller_rx = slot_mgr

\* A caller invokes subscribe() and waits for the manager lock (line 245).
subscribe_called ==
    /\ variant = "bloodbank" /\ calls_left > 0
    /\ calls_left' = calls_left - 1
    /\ waitq' = Append(waitq, "subscribe")
    /\ adapter_stop_result' = "none"
    /\ UNCHANGED <<cfgVars, mgrVars, chanVars, osVars, histVars, loopVars, lock,
                   unpolled, is_running, slot_mgr, caller_rx, mgr_ctr,
                   stop_saw_running, mockVars, bkVars, callVars,
                   evVars, busVars>>

\* The manager whose receiver subscribe() hands to its caller: line 284
\* takes the receiver stored at line 252, the one of the first manager.
returned_receiver(first, second) == first

\* subscribe() with the lock (lines 245-286).  A first manager is put in the
\* slot and its receiver in raw_rx (248-252); the supervision task is
\* spawned (264-272) and waits for the lock; a second manager is built and
\* swapped into the slot (276-281); the first manager's receiver is returned
\* (284-285).  On return old_manager (the first manager) and new_rx (the
\* second manager's receiver) are dropped and the lock is released.  raw_rx
\* is only touched here, under the manager lock, so line 284 always finds
\* the receiver and lines 288-308 are never reached.
subscribe_body ==
    /\ variant = "bloodbank" /\ lock = "free"
    /\ waitq # <<>> /\ Head(waitq) = "subscribe"
    /\ waitq' = Tail(waitq)
    /\ manager_replaced
    /\ unpolled' = unpolled + 1
    /\ mgr_ctr' = mgr_ctr + 2
    /\ slot_mgr' = mgr_ctr + 2
    /\ caller_rx' = returned_receiver(mgr_ctr + 1, mgr_ctr + 2)
    /\ rx_closed' = (returned_receiver(mgr_ctr + 1, mgr_ctr + 2) # mgr_ctr + 2)
    /\ UNCHANGED <<cfgVars, produced, lock, is_running, calls_left,
                   stop_saw_running, adapter_stop_result, mockVars, bkVars,
                   callVars, evVars, busVars, loopVars>>

\* A spawned supervision task is polled for the first time and waits for
\* the manager lock (lines 265, 299).
task_polled ==
    /\ variant = "bloodbank" /\ unpolled > 0
    /\ unpolled' = unpolled - 1
    /\ waitq' = Append(waitq, "task")
    /\ UNCHANGED <<cfgVars, mgrVars, chanVars, osVars, histVars, loopVars, lock,
                   is_running, slot_mgr, caller_rx, mgr_ctr, calls_left,
                   stop_saw_running, adapter_stop_result, mockVars, bkVars,
                   callVars,
                   evVars, busVars>>

\* The task gets the lock, sets is_running and calls start() on the manager
\* it finds in the slot (lines 265-269).  It keeps the guard while start()
\* runs.
task_starts_dropsGuard ==
    /\ variant = "bloodbank" /\ lock = "free"
    /\ waitq # <<>> /\ Head(waitq) = "task"
    /\ waitq' = Tail(waitq)
    /\ lock' = "free"
    /\ is_running' = TRUE
    /\ start(SubscribeEventsArgs)
    /\ UNCHANGED <<cfgVars, unpolled, slot_mgr, caller_rx, mgr_ctr, calls_left,
                   stop_saw_running, adapter_stop_result, mockVars, bkVars,
                   callVars, evVars, busVars, loopVars>>
task_starts ==
    /\ variant = "bloodbank" /\ lock = "free"
    /\ waitq # <<>> /\ Head(waitq) = "task"
    /\ waitq' = Tail(waitq)
    /\ lock' = "task"
    /\ is_running' = TRUE
    /\ start(SubscribeEventsArgs)
    /\ UNCHANGED <<cfgVars, unpolled, slot_mgr, caller_rx, mgr_ctr, calls_left,
                   stop_saw_running, adapter_stop_result, mockVars, bkVars,
                   callVars, evVars, busVars, loopVars>>

\* start() has returned: the task clears is_running and drops the guard
\* (lines 270-271).
task_finishes ==
    /\ variant = "bloodbank" /\ lock = "task" /\ pc = "idle"
    /\ is_running' = FALSE
    /\ lock' = "free"
    /\ UNCHANGED <<cfgVars, mgrVars, chanVars, osVars, histVars, loopVars,
                   waitq,
                   unpolled, slot_mgr, caller_rx, mgr_ctr, calls_left,
                   stop_saw_running, adapter_stop_result, mockVars, bkVars,
                   callVars,
                   evVars, busVars>>

\* The supervision loop of the manager in the slot is running a process.
subprocess_running == lock = "task" /\ proc = "running"

\* A caller invokes the adapter's stop() and waits for the manager lock
\* (line 315).  The waiter remembers whether the subprocess was running.
adapter_stop_called ==
    /\ variant = "bloodbank" /\ calls_left > 0
    /\ calls_left' = calls_left - 1
    /\ waitq' = Append(waitq, IF subprocess_running THEN "stop_running"
                              ELSE "stop")
    /\ adapter_stop_result' = "none"
    /\ UNCHANGED <<cfgVars, mgrVars, chanVars, osVars, histVars, loopVars, lock,
                   unpolled, is_running, slot_mgr, caller_rx, mgr_ctr,
                   stop_saw_running, mockVars, bkVars, callVars,
                   evVars, busVars>>

\* stop() gets the lock and calls the manager's stop() if the slot holds a
\* manager (lines 315-318).
adapter_stop_locked ==
    /\ variant = "bloodbank" /\ lock = "free"
    /\ waitq # <<>> /\ Head(waitq) \in {"stop", "stop_running"}
    /\ waitq' = Tail(waitq)
    /\ lock' = "stop"
    /\ stop_saw_running' = (Head(waitq) = "stop_running")
    /\ IF slot_mgr # 0 THEN stop_begin
       ELSE UNCHANGED <<mgrVars, chanVars, osVars, histVars>>
    /\ UNCHANGED <<cfgVars, unpolled, is_running, slot_mgr, caller_rx, mgr_ctr,
                   calls_left, adapter_stop_result, mockVars,
                   bkVars, callVars, evVars, busVars, loopVars>>

\* The manager's stop() has returned Ok: is_running is cleared, the guard is
\* dropped and stop() returns Ok(()) (lines 317-320).
adapter_stop_returns ==
    /\ variant = "bloodbank" /\ lock = "stop" /\ pc = "idle"
    /\ is_running' = FALSE
    /\ adapter_stop_result' = "Ok"
    /\ lock' = "free"
    /\ stop_saw_running' = FALSE
    /\ UNCHANGED <<cfgVars, mgrVars, chanVars, osVars, histVars, loopVars,
                   waitq,
                   unpolled, slot_mgr, caller_rx, mgr_ctr, calls_left,
                   mockVars, bkVars, callVars,
                   evVars, busVars>>

\* is_healthy() of the adapter loads is_running (lines 323-325).
adapter_is_healthy == is_running

\* ------------------------------------------------------------ MockAdapter
\* The operations of a MockAdapter are invoked one after another; each runs
\* to its end without suspending.  mock_history lists the call, subscribe,
\* stop and reset invocations since construction.

\* Argument vectors call() and subscribe() are invoked with.
ArgVectors == {<<>>, <<"status">>, <<"subscribe", "--format">>}
\* Results call() is configured to return: Ok(String) or an error.
MockResponses ==
    {[kind |-> "Ok", value |-> ""], [kind |-> "Ok", value |-> "pong"],
     [kind |-> "NotRunning", value |-> ""]}
NoMockResult == [kind |-> "none", value |-> ""]

\* Lines subscribe() is configured to stream: every sequence of up to
\* MaxLines lines, and one that is longer than the channel's capacity.
LineTexts == {"a", "b"}
RECURSIVE LinesUpTo(_)
LinesUpTo(n) ==
    IF n = 0 THEN {<<>>}
    ELSE LinesUpTo(n - 1)
         \cup {Append(o, l) : o \in {x \in LinesUpTo(n - 1) : Len(x) = n - 1},
                              l \in LineTexts}
LongLines ==
    [i \in 1..(MockChannelCapacity + 1) |-> IF i % 2 = 1 THEN "a" ELSE "b"]

\* Sender::send on a channel that is open and has room: the value is queued
\* behind those already there.
send_front(q, value) == <<value>> \o q
send(q, value) == Append(q, value)

Invocation(op, args) == [op |-> op, args |-> args]

notMock == <<cfgVars, mgrVars, chanVars, osVars, histVars, loopVars,
             lock, waitq,
             unpolled, is_running, slot_mgr, caller_rx, mgr_ctr,
             stop_saw_running, bkVars, callVars, evVars, busVars>>

\* call() (lines 151-190): counts, records the arguments, and returns a
\* copy of the configured response.
mock_call ==
    /\ variant = "mock" /\ calls_left > 0
    /\ calls_left' = calls_left - 1
    /\ \E args \in ArgVectors :
          /\ last_call_args' = args
          /\ mock_history' = Append(mock_history, Invocation("call", args))
    /\ call_count' = call_count + 1
    /\ mock_call_result' = call_response
    /\ adapter_stop_result' = "none"
    /\ UNCHANGED <<notMock, mock_healthy, stop_count, subscribe_count,
                   last_subscribe_args, call_response, subscribe_lines,
                   mockReplay>>

\* subscribe() (lines 192-210): counts, records the arguments, creates a
\* channel, and spawns a task that owns the sender and a copy of the
\* configured lines.  The receiver of an earlier subscription is no longer
\* followed.
mock_subscribe ==
    /\ variant \in {"mock", "replay"} /\ calls_left > 0
    /\ calls_left' = calls_left - 1
    /\ \E args \in ArgVectors :
          /\ last_subscribe_args' = args
          /\ mock_history' = Append(mock_history, Invocation("subscribe", args))
    /\ subscribe_count' = subscribe_count + 1
    /\ mock_q' = <<>> /\ mock_tx_open' = TRUE /\ mock_rx_open' = TRUE
    /\ replay_lines' = subscribe_lines
    /\ replay_rest' = subscribe_lines
    /\ mock_received' = <<>>
    /\ adapter_stop_result' = "none"
    /\ UNCHANGED <<notMock, mock_healthy, stop_count, call_count,
                   last_call_args, call_response, subscribe_lines,
                   mock_call_result>>

\* The spawned task sends its next line (lines 201-205): send() waits while
\* the channel is full and fails once the receiver is gone, which ends the
\* task.
replay_sends ==
    /\ variant = "replay" /\ mock_tx_open /\ replay_rest # <<>>
    /\ IF ~mock_rx_open
       THEN mock_tx_open' = FALSE /\ replay_rest' = <<>> /\ UNCHANGED mock_q
       ELSE /\ Len(mock_q) < MockChannelCapacity
            /\ mock_q' = send(mock_q, Head(replay_rest))
            /\ replay_rest' = Tail(replay_rest)
            /\ UNCHANGED mock_tx_open
    /\ UNCHANGED <<notMock, calls_left, adapter_stop_result, mock_healthy,
                   mockCounters, call_response, subscribe_lines,
                   mock_call_result, mock_history, replay_lines, mock_rx_open,
                   mock_received>>

\* The task has sent every line and ends, dropping the sender.
replay_ends ==
    /\ variant = "replay" /\ mock_tx_open /\ replay_rest = <<>>
    /\ mock_tx_open' = FALSE
    /\ UNCHANGED <<notMock, calls_left, adapter_stop_result, mock_healthy,
                   mockCounters, call_response, subscribe_lines,
                   mock_call_result, mock_history, replay_lines, replay_rest,
                   mock_q, mock_rx_open, mock_received>>

\* The holder of the returned receiver takes the next line, or drops the
\* receiver.
mock_consumer_recv ==
    /\ variant = "replay" /\ mock_rx_open /\ mock_q # <<>>
    /\ mock_received' = Append(mock_received, Head(mock_q))
    /\ mock_q' = Tail(mock_q)
    /\ UNCHANGED <<notMock, calls_left, adapter_stop_result, mock_healthy,
                   mockCounters, call_response, subscribe_lines,
                   mock_call_result, mock_history, replay_lines, replay_rest,
                   mock_tx_open, mock_rx_open>>
mock_consumer_drops ==
    /\ variant = "replay" /\ mock_rx_open
    /\ mock_rx_open' = FALSE /\ mock_q' = <<>>
    /\ UNCHANGED <<notMock, calls_left, adapter_stop_result, mock_healthy,
                   mockCounters, call_response, subscribe_lines,
                   mock_call_result, mock_history, replay_lines, replay_rest,
                   mock_tx_open, mock_received>>

\* recv() on the returned receiver yields None: the channel is empty and
\* its sender is gone.
mock_rx_closed == mock_rx_open /\ mock_q = <<>> /\ ~mock_tx_open

\* stop() (lines 212-216).
mock_stop ==
    /\ variant = "mock" /\ calls_left > 0
    /\ calls_left' = calls_left - 1
    /\ stop_count' = stop_count + 1
    /\ mock_healthy' = FALSE
    /\ mock_history' = Append(mock_history, Invocation("stop", <<>>))
    /\ adapter_stop_result' = "Ok"
    /\ UNCHANGED <<notMock, call_count, subscribe_count, last_call_args,
                   last_subscribe_args, call_response, subscribe_lines,
                   mock_call_result, mockReplay>>

\* reset() (lines 140-146): the three counters and the two recorded
\* argument vectors.
mock_reset_keepsArgs ==
    /\ variant = "mock" /\ calls_left > 0
    /\ calls_left' = calls_left - 1
    /\ call_count' = 0 /\ subscribe_count' = 0 /\ stop_count' = 0
    /\ last_call_args' = <<>>
    /\ mock_history' = Append(mock_history, Invocation("reset", <<>>))
    /\ adapter_stop_result' = "none"
    /\ UNCHANGED <<notMock, mock_healthy, call_response, subscribe_lines,
                   mock_call_result, mockReplay, last_subscribe_args>>
mock_reset ==
    /\ variant = "mock" /\ calls_left > 0
    /\ calls_left' = calls_left - 1
    /\ call_count' = 0 /\ subscribe_count' = 0 /\ stop_count' = 0
    /\ last_call_args' = <<>> /\ last_subscribe_args' = <<>>
    /\ mock_history' = Append(mock_history, Invocation("reset", <<>>))
    /\ adapter_stop_result' = "none"
    /\ UNCHANGED <<notMock, mock_healthy, call_response, subscribe_lines,
                   mock_call_result, mockReplay>>

\* set_healthy() (lines 110-112).
mock_set_healthy ==
    /\ variant = "mock"
    /\ \E healthy \in BOOLEAN : mock_healthy' = healthy
    /\ adapter_stop_result' = "none"
    /\ UNCHANGED <<notMock, calls_left, mockCounters, call_response,
                   subscribe_lines, mock_call_result, mock_history,
                   mockReplay>>

\* set_call_response() (lines 96-98).
mock_set_call_response ==
    /\ variant = "mock"
    /\ \E response \in MockResponses : call_response' = response
    /\ adapter_stop_result' = "none"
    /\ UNCHANGED <<notMock, calls_left, mock_healthy, mockCounters,
                   subscribe_lines, mock_call_result, mock_history,
                   mockReplay>>

\* set_subscribe_lines() (lines 105-107).
mock_set_subscribe_lines ==
    /\ variant = "replay" /\ calls_left > 0
    /\ calls_left' = calls_left - 1
    /\ \E lines \in LinesUpTo(MaxLines) \cup {LongLines} :
          subscribe_lines' = lines
    /\ adapter_stop_result' = "none"
    /\ UNCHANGED <<notMock, mock_healthy, mockCounters, call_response,
                   mock_call_result, mock_history, mockReplay>>

\* is_healthy() of the mock (lines 218-220).
mock_is_healthy == mock_healthy

\* ------------------------------------------------------ calculate_backoff
\* calculate_backoff is applied to the input drawn at Init; bk_out = 0
\* stands for "not computed yet" (a backoff is never 0 seconds).
backoff_computed ==
    /\ variant = "backoff" /\ bk_out = 0
    /\ bk_out' = calculate_backoff(bk_in)
    /\ UNCHANGED <<cfgVars, mgrVars, chanVars, osVars, histVars, loopVars,
                   adapterVars,
                   mockVars, bk_in, callVars,
                   evVars, busVars>>

\* -------------------------------------------------- SubprocessManager::call
\* call() (lines 101-132) runs the command once under call_timeout_secs and
\* turns the outcome into a result.  The command's behaviour is the input:
\* how spawning it goes, what it writes to stdout and stderr (a sequence of
\* pieces, each valid text or bytes that are not UTF-8), and how it ends.

\* Longest stdout or stderr a command writes.
MaxOutputLen == 2
\* call_timeout_secs values a configuration is drawn with.
CallTimeouts == {1, DefaultCallTimeout}

Pieces == {"text", "invalid"}
RECURSIVE OutputsUpTo(_)
OutputsUpTo(n) ==
    IF n = 0 THEN {<<>>}
    ELSE OutputsUpTo(n - 1)
         \cup {Append(o, p) : o \in {x \in OutputsUpTo(n - 1) : Len(x) = n - 1},
                              p \in Pieces}

\* std::process::ExitStatus: an exit code, or death by a signal (no code).
ExitStatuses ==
    {[signalled |-> FALSE, code |-> c] : c \in 0..2}
    \cup {[signalled |-> TRUE, code |-> 0]}
\* ExitStatus::success and ExitStatus::code().unwrap_or(-1) (lines 124, 128)
success(status) == ~status.signalled /\ status.code = 0
code_or_minus_one(status) == IF status.signalled THEN -1 ELSE status.code

Commands ==
    [spawn : {"ok", "NotFound", "OtherError"}, status : ExitStatuses,
     stdout : OutputsUpTo(MaxOutputLen), stderr : OutputsUpTo(MaxOutputLen)]
NoCommand ==
    [spawn |-> "ok", status |-> [signalled |-> FALSE, code |-> 0],
     stdout |-> <<>>, stderr |-> <<>>]
NothingCaptured == [stdout |-> <<>>, stderr |-> <<>>]

\* String::from_utf8_lossy: bytes that are not UTF-8 become U+FFFD.
from_utf8_lossy(bytes) ==
    [i \in 1..Len(bytes) |-> IF bytes[i] = "invalid" THEN "U+FFFD" ELSE bytes[i]]

\* An IntegrationResult<String>: Ok(output), or an error with its payload.
CallResult(kind, code, text, output) ==
    [kind |-> kind, code |-> code, text |-> text, output |-> output]
NoCallResult == CallResult("none", 0, <<>>, <<>>)
\* format!("{} {}", self.command, args.join(" ")) (line 113)
Operation == <<"command", "args">>

\* Lines 112-115: the deadline passed before output() completed.
timeout_result_withPartial(captured) ==
    CallResult("Timeout", call_timeout_secs, Operation,
               from_utf8_lossy(captured.stdout))
timeout_result(captured) ==
    CallResult("Timeout", call_timeout_secs, Operation, <<>>)

\* Lines 116-122: output() failed to spawn the command.
spawn_error(kind) ==
    IF kind = "NotFound"
    THEN CallResult("CliNotFound", 0, <<"command">>, <<>>)
    ELSE CallResult("SpawnFailed", 0, <<kind>>, <<>>)

\* Lines 124-131: the command ran to its end.
exit_result_stdoutAsStderr(status, captured) ==
    IF success(status)
    THEN CallResult("Ok", 0, <<>>, from_utf8_lossy(captured.stdout))
    ELSE CallResult("ProcessExited", code_or_minus_one(status),
                    from_utf8_lossy(captured.stdout), <<>>)
exit_result(status, captured) ==
    IF success(status)
    THEN CallResult("Ok", 0, <<>>, from_utf8_lossy(captured.stdout))
    ELSE CallResult("ProcessExited", code_or_minus_one(status),
                    from_utf8_lossy(captured.stderr), <<>>)

notCall == <<cfgVars, mgrVars, chanVars, osVars, histVars, loopVars,
             adapterVars,
             mockVars, bkVars, evVars, busVars>>

\* call() is invoked: output() spawns the command (lines 104-108).
call_begin ==
    /\ variant = "call" /\ call_pc = "idle"
    /\ call_spawns' = call_spawns + 1
    /\ IF call_cmd.spawn = "ok"
       THEN call_pc' = "running" /\ UNCHANGED call_result
       ELSE call_pc' = "done" /\ call_result' = spawn_error(call_cmd.spawn)
    /\ UNCHANGED <<notCall, call_cmd, call_captured>>

\* The command writes its next piece of stdout or of stderr; output()
\* collects both pipes.
call_proc_writes ==
    /\ variant = "call" /\ call_pc = "running"
    /\ \E s \in {"stdout", "stderr"} :
          /\ Len(call_captured[s]) < Len(call_cmd[s])
          /\ call_captured' =
               [call_captured EXCEPT
                  ![s] = Append(@, call_cmd[s][Len(call_captured[s]) + 1])]
    /\ UNCHANGED <<notCall, call_pc, call_cmd, call_spawns, call_result>>

\* The command has written everything and ends with its status.
call_proc_exits ==
    /\ variant = "call" /\ call_pc = "running"
    /\ call_captured = [stdout |-> call_cmd.stdout, stderr |-> call_cmd.stderr]
    /\ call_pc' = "exited"
    /\ UNCHANGED <<notCall, call_cmd, call_captured, call_spawns, call_result>>

\* output() completes and call() returns (lines 124-131).
call_returns ==
    /\ variant = "call" /\ call_pc = "exited"
    /\ call_result' = exit_result(call_cmd.status, call_captured)
    /\ call_pc' = "done"
    /\ UNCHANGED <<notCall, call_cmd, call_captured, call_spawns>>

\* call_timeout_secs elapse while the command is still running
\* (lines 102-115): timeout() polls output() first, so a command that has
\* ended is never timed out.
call_times_out ==
    /\ variant = "call" /\ call_pc = "running"
    /\ call_result' = timeout_result(call_captured)
    /\ call_pc' = "done"
    /\ UNCHANGED <<notCall, call_cmd, call_captured, call_spawns>>

\* ------------------------------------ BloodbankAdapter::subscribe_events
\* The task spawned by subscribe_events (lines 190-205) owns the raw
\* receiver and the sender of the event channel, whose capacity is
\* channel_capacity (line 187).

\* What a raw line holds, as far as serde_json::from_str::<BloodbankEvent>
\* tells lines apart (lines 41-107): JSON of a known event type with its
\* required fields, JSON of a type that is not known, JSON of a known type
\* lacking a required field, and text that is not JSON.
LineKinds == {"known", "unknown_type", "missing_field", "invalid_json"}
RawLine(n, kind) == [n |-> n, kind |-> kind]
NoEvent == [type |-> "none", n |-> 0]

\* parse_event (lines 214-222).  An event of a known type carries the
\* line's fields (n); #[serde(other)] turns any other type into the
\* field-less Unknown.
parse_event(line) ==
    CASE line.kind = "known" ->
           [tag |-> "Event", event |-> [type |-> "Known", n |-> line.n]]
      [] line.kind = "unknown_type" ->
           [tag |-> "Event", event |-> [type |-> "Unknown", n |-> 0]]
      [] OTHER ->
           [tag |-> "ParseError", event |-> NoEvent]

notEvents == <<cfgVars, mgrVars, chanVars, osVars, histVars, loopVars,
               adapterVars,
               mockVars, bkVars, callVars, busVars>>

\* The holder of the raw sender (a read_loop, lines 263-271) sends a line
\* with try_send, or drops the sender.
raw_line_sent ==
    /\ variant = "events" /\ raw_tx_open /\ raw_sent < MaxRawLines
    /\ raw_sent' = raw_sent + 1
    /\ \E kind \in LineKinds :
          raw_q' = try_send(raw_q, ev_pc = "done", RawLine(raw_sent + 1, kind))
    /\ UNCHANGED <<notEvents, ev_pc, raw_tx_open, ev_pending, event_q,
                   event_rx_open, raw_taken, forwarded>>
raw_sender_dropped ==
    /\ variant = "events" /\ raw_tx_open
    /\ raw_tx_open' = FALSE
    /\ UNCHANGED <<notEvents, ev_pc, raw_q, raw_sent, ev_pending, event_q,
                   event_rx_open, raw_taken, forwarded>>

\* raw_rx.recv() yields a line (lines 192-203): a line that parses becomes
\* the event to send, a line that does not is logged and the loop goes on.
parse_line_stopsOnError ==
    /\ variant = "events" /\ ev_pc = "recv" /\ raw_q # <<>>
    /\ raw_q' = Tail(raw_q)
    /\ raw_taken' = Append(raw_taken, Head(raw_q))
    /\ LET parsed == parse_event(Head(raw_q))
       IN  IF parsed.tag = "Event"
           THEN ev_pending' = parsed.event /\ ev_pc' = "send"
           ELSE ev_pending' = NoEvent /\ ev_pc' = "done"
    /\ UNCHANGED <<notEvents, raw_tx_open, raw_sent, event_q, event_rx_open,
                   forwarded>>
parse_line ==
    /\ variant = "events" /\ ev_pc = "recv" /\ raw_q # <<>>
    /\ raw_q' = Tail(raw_q)
    /\ raw_taken' = Append(raw_taken, Head(raw_q))
    /\ LET parsed == parse_event(Head(raw_q))
       IN  IF parsed.tag = "Event"
           THEN ev_pending' = parsed.event /\ ev_pc' = "send"
           ELSE ev_pending' = NoEvent /\ ev_pc' = "recv"
    /\ UNCHANGED <<notEvents, raw_tx_open, raw_sent, event_q, event_rx_open,
                   forwarded>>

\* raw_rx.recv() yields None: the raw channel is empty and its sender is
\* gone.  The loop and the task end; the event sender is dropped.
raw_channel_closed ==
    /\ variant = "events" /\ ev_pc = "recv" /\ raw_q = <<>> /\ ~raw_tx_open
    /\ ev_pc' = "done"
    /\ UNCHANGED <<notEvents, raw_q, raw_tx_open, raw_sent, ev_pending,
                   event_q, event_rx_open, raw_taken, forwarded>>

\* event_tx.send(event).await (lines 195-198): waits while the event channel
\* is full; fails once the event receiver is gone, which ends the task.
event_sent ==
    /\ variant = "events" /\ ev_pc = "send"
    /\ IF ~event_rx_open
       THEN ev_pc' = "done" /\ UNCHANGED <<event_q, forwarded>>
       ELSE /\ Len(event_q) < channel_capacity
            /\ event_q' = send(event_q, ev_pending)
            /\ forwarded' = Append(forwarded, ev_pending)
            /\ ev_pc' = "recv"
    /\ ev_pending' = NoEvent
    /\ UNCHANGED <<notEvents, raw_q, raw_tx_open, raw_sent, event_rx_open,
                   raw_taken>>

\* The caller of subscribe_events takes the next event from the receiver it
\* was given, or drops the receiver.
event_consumer_recv ==
    /\ variant = "events" /\ event_rx_open /\ event_q # <<>>
    /\ event_q' = Tail(event_q)
    /\ UNCHANGED <<notEvents, ev_pc, raw_q, raw_tx_open, raw_sent, ev_pending,
                   event_rx_open, raw_taken, forwarded>>
event_consumer_drops ==
    /\ variant = "events" /\ event_rx_open
    /\ event_rx_open' = FALSE /\ event_q' = <<>>
    /\ UNCHANGED <<notEvents, ev_pc, raw_q, raw_tx_open, raw_sent, ev_pending,
                   raw_taken, forwarded>>

\* The event channel is closed from the sending side: the task has ended.
event_channel_closed == ev_pc = "done"

\* -------------------------------------------------------- NotificationBus
\* src/zellij-server/src/notifications/bus.rs.  A PaneId is Terminal(n) or
\* Plugin(n); pending_notifications maps a pane to its notification, None
\* standing for no entry.
Panes == {<<"Terminal", 1>>, <<"Plugin", 1>>}
Notifications == {"error", "success"}
None == "None"
BusOp(op, pane, value) == [op |-> op, pane |-> pane, value |-> value]

notBus == <<cfgVars, mgrVars, chanVars, osVars, histVars, loopVars, adapterVars,
            mockVars, bkVars, callVars, evVars>>

\* HashMap::insert replaces the value of a key that is present.
insert_keepsFirst(map, key, value) ==
    IF map[key] = None THEN [map EXCEPT ![key] = value] ELSE map
insert(map, key, value) == [map EXCEPT ![key] = value]
\* HashMap::remove.
remove(map, key) == [map EXCEPT ![key] = None]

\* notify_pane (lines 26-28).
notify_pane ==
    /\ variant = "bus" /\ Len(bus_history) < MaxOps
    /\ \E pane \in Panes, notification \in Notifications :
          /\ pending_notifications' =
                insert(pending_notifications, pane, notification)
          /\ bus_history' =
                Append(bus_history, BusOp("notify", pane, notification))
    /\ bus_result' = None
    /\ UNCHANGED notBus

\* get_notification (lines 33-35) returns what remove returns.
get_notification ==
    /\ variant = "bus" /\ Len(bus_history) < MaxOps
    /\ \E pane \in Panes :
          /\ bus_result' = pending_notifications[pane]
          /\ pending_notifications' = remove(pending_notifications, pane)
          /\ bus_history' = Append(bus_history, BusOp("get", pane, None))
    /\ UNCHANGED notBus

\* clear_notification (lines 38-40).
clear_notification ==
    /\ variant = "bus" /\ Len(bus_history) < MaxOps
    /\ \E pane \in Panes :
          /\ pending_notifications' = remove(pending_notifications, pane)
          /\ bus_history' = Append(bus_history, BusOp("clear", pane, None))
    /\ bus_result' = None
    /\ UNCHANGED notBus

\* has_notification (lines 43-45) and peek_notification (lines 48-50).
has_notification ==
    /\ variant = "bus" /\ Len(bus_history) < MaxOps
    /\ \E pane \in Panes :
          /\ bus_result' = (pending_notifications[pane] # None)
          /\ bus_history' = Append(bus_history, BusOp("has", pane, None))
    /\ UNCHANGED <<notBus, pending_notifications>>
peek_notification ==
    /\ variant = "bus" /\ Len(bus_history) < MaxOps
    /\ \E pane \in Panes :
          /\ bus_result' = pending_notifications[pane]
          /\ bus_history' = Append(bus_history, BusOp("peek", pane, None))
    /\ UNCHANGED <<notBus, pending_notifications>>

\* ------------------------------------------------------------------ Init
AdapterIdle ==
    /\ lock = "free" /\ waitq = <<>> /\ unpolled = 0 /\ is_running = FALSE
    /\ slot_mgr = 0 /\ caller_rx = 0 /\ mgr_ctr = 0
    /\ calls_left = 0
    /\ stop_saw_running = FALSE /\ adapter_stop_result = "none"
\* MockAdapter::new (lines 77-89), with no subscription made yet.
MockIdle ==
    /\ mock_healthy = TRUE
    /\ stop_count = 0 /\ call_count = 0 /\ subscribe_count = 0
    /\ last_call_args = <<>> /\ last_subscribe_args = <<>>
    /\ call_response = [kind |-> "Ok", value |-> ""]
    /\ subscribe_lines = <<>>
    /\ mock_call_result = NoMockResult /\ mock_history = <<>>
    /\ replay_lines = <<>> /\ replay_rest = <<>> /\ mock_q = <<>>
    /\ mock_tx_open = FALSE /\ mock_rx_open = FALSE /\ mock_received = <<>>
EventsIdle ==
    /\ ev_pc = "none" /\ raw_q = <<>> /\ raw_tx_open = FALSE /\ raw_sent = 0
    /\ ev_pending = NoEvent /\ event_q = <<>> /\ event_rx_open = FALSE
    /\ raw_taken = <<>> /\ forwarded = <<>>
\* NotificationBus::new (lines 17-21).
BusIdle ==
    /\ pending_notifications = [pane \in Panes |-> None]
    /\ bus_history = <<>> /\ bus_result = None
CallIdle ==
    /\ call_pc = "idle" /\ call_cmd = NoCommand
    /\ call_captured = NothingCaptured /\ call_spawns = 0
    /\ call_result = NoCallResult
BackoffIdle == bk_in = 0 /\ bk_out = 0

InitManager ==
    /\ variant = "manager" /\ call_timeout_secs = DefaultCallTimeout
    /\ max_restarts \in 0..MaxRestartsBound
    /\ channel_capacity \in 1..MaxCapacity
    /\ ManagerNew /\ LoopIdle /\ produced = 0 /\ rx_closed = FALSE
    /\ AdapterIdle /\ MockIdle /\ BackoffIdle /\ CallIdle
    /\ EventsIdle /\ BusIdle

\* The capacity of the manager's channel is one value here: try_send finds
\* the channel closed whatever its capacity (see returned_receiver).
InitBloodbank ==
    /\ variant = "bloodbank" /\ call_timeout_secs = DefaultCallTimeout
    /\ max_restarts \in 0..MaxRestartsBound
    /\ channel_capacity = MaxCapacity
    /\ ManagerNew /\ LoopIdle /\ produced = 0 /\ rx_closed = TRUE
    /\ lock = "free" /\ waitq = <<>> /\ unpolled = 0 /\ is_running = FALSE
    /\ slot_mgr = 0 /\ caller_rx = 0 /\ mgr_ctr = 0
    /\ calls_left = MaxCalls
    /\ stop_saw_running = FALSE /\ adapter_stop_result = "none"
    /\ MockIdle /\ BackoffIdle /\ CallIdle /\ EventsIdle /\ BusIdle

InitMock ==
    /\ variant = "mock" /\ call_timeout_secs = DefaultCallTimeout
    /\ max_restarts = 0 /\ channel_capacity = 1
    /\ ManagerNew /\ LoopIdle /\ produced = 0 /\ rx_closed = TRUE
    /\ lock = "free" /\ waitq = <<>> /\ unpolled = 0 /\ is_running = FALSE
    /\ slot_mgr = 0 /\ caller_rx = 0 /\ mgr_ctr = 0
    /\ calls_left = MaxOps
    /\ stop_saw_running = FALSE /\ adapter_stop_result = "none"
    /\ MockIdle /\ BackoffIdle /\ CallIdle /\ EventsIdle /\ BusIdle

\* A MockAdapter whose subscriptions are followed to their end (SpecReplay).
InitReplay ==
    /\ variant = "replay" /\ call_timeout_secs = DefaultCallTimeout
    /\ max_restarts = 0 /\ channel_capacity = 1
    /\ ManagerNew /\ LoopIdle /\ produced = 0 /\ rx_closed = TRUE
    /\ lock = "free" /\ waitq = <<>> /\ unpolled = 0 /\ is_running = FALSE
    /\ slot_mgr = 0 /\ caller_rx = 0 /\ mgr_ctr = 0
    /\ calls_left = MaxCalls
    /\ stop_saw_running = FALSE /\ adapter_stop_result = "none"
    /\ MockIdle /\ BackoffIdle /\ CallIdle /\ EventsIdle /\ BusIdle

InitBus ==
    /\ variant = "bus" /\ call_timeout_secs = DefaultCallTimeout
    /\ max_restarts = 0 /\ channel_capacity = 1
    /\ ManagerNew /\ LoopIdle /\ produced = 0 /\ rx_closed = TRUE
    /\ AdapterIdle /\ MockIdle /\ BackoffIdle /\ CallIdle /\ EventsIdle
    /\ BusIdle

InitBackoff ==
    /\ variant = "backoff" /\ call_timeout_secs = DefaultCallTimeout
    /\ max_restarts = 0 /\ channel_capacity = 1
    /\ ManagerNew /\ LoopIdle /\ produced = 0 /\ rx_closed = TRUE
    /\ AdapterIdle /\ MockIdle /\ CallIdle /\ EventsIdle /\ BusIdle
    /\ bk_in \in 0..U8Max /\ bk_out = 0

InitCall ==
    /\ variant = "call" /\ call_timeout_secs \in CallTimeouts
    /\ max_restarts = 0 /\ channel_capacity = 1
    /\ ManagerNew /\ LoopIdle /\ produced = 0 /\ rx_closed = TRUE
    /\ AdapterIdle /\ MockIdle /\ BackoffIdle /\ EventsIdle /\ BusIdle
    /\ call_pc = "idle" /\ call_cmd \in Commands
    /\ call_captured = NothingCaptured /\ call_spawns = 0
    /\ call_result = NoCallResult

Init ==
    \/ InitManager \/ InitBloodbank \/ InitMock \/ InitBackoff \/ InitCall

\* The remaining select! branches of read_loop.
read_other == pc = "reading" /\ (read_stderr \/ shutdown_requested)

ManagerStep ==
    \/ run_with_restart_top \/ backoff_elapsed \/ spawn_subprocess
    \/ store_child
    \/ read_stdout_line \/ read_stdout_eof \/ read_stdout_err
    \/ health_check \/ read_other
    \/ stop_wait_done
    \/ proc_writes \/ proc_closes_stdout \/ proc_exits

Next ==
    \/ ManagerStep
    \/ client_start \/ client_stop \/ client_reset_restart_count
    \/ client_drops_manager
    \/ consumer_recv \/ consumer_drops
    \/ subscribe_called \/ subscribe_body \/ task_polled \/ task_starts
    \/ task_finishes
    \/ adapter_stop_called \/ adapter_stop_locked \/ adapter_stop_returns
    \/ mock_call \/ mock_subscribe \/ mock_stop \/ mock_reset
    \/ mock_set_healthy \/ mock_set_call_response
    \/ backoff_computed
    \/ call_begin \/ call_proc_writes \/ call_proc_exits \/ call_returns
    \/ call_times_out

Spec == Init /\ [][Next]_vars

\* ---------------------------------------- the shutdown channel, signalled
\* tx.send(()) of lines 334-336 taken on its own, reaching the receiver that
\* a start() in progress holds: the use the shutdown channel is made for.
\* In the program the send is part of stop(), which cannot begin before
\* start() has returned, so Spec has no such step; SpecSignalled adds it to
\* exercise the shutdown branch of read_loop and its handling in
\* run_with_restart, for a manager owned by a client whose consumer leaves
\* the channel alone.
shutdown_signalled ==
    /\ variant = "manager" /\ InStart /\ shutdown_tx
    /\ shutdown_tx' = FALSE /\ shutdown_sent' = TRUE
    /\ UNCHANGED <<pc, restart_count, is_healthy, child, last_error,
                   start_result, stop_result, chanVars, osVars, histVars,
                   outsideLoop>>

NextSignalled ==
    \/ ManagerStep
    \/ client_start \/ client_stop \/ client_reset_restart_count
    \/ shutdown_signalled \/ shutdown_requested

SpecSignalled == InitManager /\ [][NextSignalled]_vars

\* ------------------------------------------- start() with any arguments
\* Spec starts a manager with an empty argument vector; SpecRespawn lets
\* each start() call take its own, for a manager owned by a client whose
\* consumer leaves the channel alone.
NextRespawn ==
    \/ ManagerStep
    \/ client_start_with_args \/ client_stop \/ client_reset_restart_count

SpecRespawn == InitManager /\ [][NextRespawn]_vars

\* ------------------------------------------- the parsing task, given lines
\* The task of subscribe_events taken on its own, reading a raw channel
\* whose sender is alive.  In the program the raw receiver comes from
\* BloodbankAdapter::subscribe, which returns the receiver of a manager it
\* has dropped, so Spec has no step in which the task is given a line;
\* SpecEvents feeds it lines to exercise parse_event and the forwarding.
InitEvents ==
    /\ variant = "events" /\ call_timeout_secs = DefaultCallTimeout
    /\ max_restarts = 0 /\ channel_capacity \in 1..MaxCapacity
    /\ ManagerNew /\ LoopIdle /\ produced = 0 /\ rx_closed = TRUE
    /\ AdapterIdle /\ MockIdle /\ BackoffIdle /\ CallIdle /\ BusIdle
    /\ ev_pc = "recv" /\ raw_q = <<>> /\ raw_tx_open = TRUE /\ raw_sent = 0
    /\ ev_pending = NoEvent /\ event_q = <<>> /\ event_rx_open = TRUE
    /\ raw_taken = <<>> /\ forwarded = <<>>

NextEvents ==
    \/ raw_line_sent \/ raw_sender_dropped
    \/ parse_line \/ raw_channel_closed \/ event_sent
    \/ event_consumer_recv \/ event_consumer_drops

SpecEvents == InitEvents /\ [][NextEvents]_vars

\* ------------------------------------------ MockAdapter's subscriptions
\* A MockAdapter on which lines are configured and subscriptions are made,
\* with the spawned task and the holder of the receiver running.
NextReplay ==
    \/ mock_set_subscribe_lines \/ mock_subscribe
    \/ replay_sends \/ replay_ends
    \/ mock_consumer_recv \/ mock_consumer_drops

SpecReplay == InitReplay /\ [][NextReplay]_vars

\* ------------------------------------------------------ NotificationBus
\* A NotificationBus and the operations invoked on it.
NextBus ==
    \/ notify_pane \/ get_notification \/ clear_notification
    \/ has_notification \/ peek_notification

SpecBus == InitBus /\ [][NextBus]_vars

\* ============================================================ properties
\* A run of start() in which no stdout line was read and which found
\* restart_count at 0: every spawn attempt of it ended in a crash.
CrashOnlyRun == variant \in {"manager", "bloodbank"} /\ started
                /\ ~line_seen /\ start_count = 0
StartReturned == pc = "idle" /\ start_result.kind # "none"

C2_TwoRestartsThenTerminal ==
    ( /\ CrashOnlyRun /\ StartReturned /\ max_restarts = 2
      /\ start_result.last_error.kind = "ProcessExited" ) =>
        /\ delays = <<1, 2>>
        /\ start_result.kind = "MaxRestartsExceeded"
        /\ start_result.attempts = 2

\* C3 - Backoff formula: calculate_backoff(k) = min(2^(k-1), 8) seconds for
\* every k in 1..255; k = 1,2,3,4,5 give 1,2,4,8,8.  (2^(k-1) exceeds 8 as
\* soon as k-1 >= 4, which keeps the power small enough to evaluate.)
CappedPower(k) == IF k - 1 >= 4 THEN 8 ELSE Min(2 ^ (k - 1), 8)
C3_BackoffFormula ==
    /\ (variant = "backoff" /\ bk_out # 0 /\ bk_in >= 1) =>
          bk_out = CappedPower(bk_in)
    /\ \A k \in 1..5 :
          (variant = "backoff" /\ bk_out # 0 /\ bk_in = k) =>
              bk_out = <<1, 2, 4, 8, 8>>[k]
C3_Witness == variant = "backoff" /\ bk_in = 5 /\ bk_out = 8

\* C4 - Health reset: a stdout line that is read sets restart_count to 0, so
\* the next crash after it sets restart_count to 1 and the backoff that
\* follows is 1 second, whatever the count was before the line;
\* restart_count increases only on a detected crash (a failed spawn or a
\* crash outcome of the read loop), and then by exactly 1.
LineRead ==
    pc = "reading" /\ pc' = "reading" /\ pipe # <<>> /\ pipe' = Tail(pipe)
CrashStep == pc \in {"spawn", "reading"} /\ pc' = "loop_top"
C4_HealthReset ==
    [][ /\ LineRead => restart_count' = 0
        /\ (CrashStep /\ line_since_crash) => restart_count' = 1
        /\ (pc = "loop_top" /\ pc' = "backoff" /\ restart_count = 1) =>
              delays' = Append(delays, 1)
        /\ restart_count' > restart_count =>
              CrashStep /\ restart_count' = restart_count + 1 ]_vars
C4_Witness ==
    /\ pc = "backoff" /\ restart_count = 1 /\ delays = <<1>>
    /\ line_seen /\ attempts = 0 /\ count_at_line = 2

\* C5 - Idempotent stop: for SubprocessManager, BloodbankAdapter and
\* MockAdapter, from every state, consecutive stop() calls all return
\* success and is_healthy() is false after each of them (that is, from the
\* return of a stop() until the next call on the object); stop() on a
\* manager that was never started returns success without sending a signal
\* to or waiting on any process.
C5_IdempotentStop ==
    /\ (variant = "manager" /\ stop_result = "Ok") => ~manager_is_healthy
    /\ (variant = "bloodbank" /\ adapter_stop_result = "Ok") =>
          ~adapter_is_healthy
    /\ (variant = "mock" /\ adapter_stop_result = "Ok") => ~mock_is_healthy
    /\ (variant = "manager" /\ ~started) =>
          /\ pc \in {"idle", "dropped"} /\ stop_signals = {} /\ proc = "none"
          /\ stop_result \in {"none", "Ok"}

NoSpawnAhead == pc \in {"idle", "loop_top", "stop_wait", "dropped"}

C8_SingleLiveChild == LiveChildren <= 1

\* C9 - subscribe() constructs one manager per call and returns the receiver
\* of that manager's output channel: the manager whose loop the background
\* task runs is the one whose receiver the caller holds, and that receiver
\* is not closed while the supervision loop is running.
C9_CallerHoldsRunningManagersReceiver ==
    (variant = "bloodbank" /\ lock = "task") =>
        (caller_rx = slot_mgr /\ caller_rx_open)

\* C10 - When a subscription's subprocess is running, the adapter's stop()
\* triggers graceful termination and returns success without having to wait
\* for the supervision loop to end on its own: when such a stop() gets to
\* act on the manager, the loop has not ended by exhausting its restarts.
C10_StopInterruptsLoop ==
    (variant = "bloodbank" /\ lock = "stop" /\ stop_saw_running) =>
        start_result.kind # "MaxRestartsExceeded"

\* A subscribe() call is waiting in manager.lock().await.
SubscribeWaiting == \E i \in 1..Len(waitq) : waitq[i] = "subscribe"

\* C11 - subscribe() returns its receiver immediately in every reachable
\* adapter state: it never waits for the subprocess to be spawned, to
\* produce its first line, or for a supervision loop to finish.  A
\* subscribe() call therefore never waits for the manager lock while a
\* supervision task holds it.
C11_SubscribeNeverWaitsForLoop ==
    (variant = "bloodbank" /\ SubscribeWaiting) => lock # "task"

\* The loop is between a detected crash and the next successful spawn: at
\* the ceiling check after a crash, in the backoff sleep, or spawning.
CrashedNotRespawned ==
    pc \in {"loop_top", "backoff", "spawn"} /\ last_error # NoError

\* C12 - The manager's health flag is false in every state where the manager
\* is stopped, is between a detected crash and the next successful spawn
\* (crashed or waiting in backoff), or is in terminal failure; it is true
\* only after a successful spawn or a health check that found the process
\* running.
C12_HealthFlag ==
    variant \in {"manager", "bloodbank"} =>
        /\ (pc = "idle" /\ stop_result = "Ok") => ~manager_is_healthy
        /\ CrashedNotRespawned => ~manager_is_healthy
        /\ (pc = "idle" /\ start_result.kind = "MaxRestartsExceeded") =>
              ~manager_is_healthy
        /\ manager_is_healthy => child = "Some"

\* C13 - BloodbankAdapter.is_healthy() reflects the supervised manager's
\* health flag: at every moment it returns true only if the flag of the
\* manager in its slot is true, so the adapter reports unhealthy after spawn
\* failures, during backoff, after terminal failure and after stop.
C13_AdapterHealthReflectsManager ==
    (variant = "bloodbank" /\ adapter_is_healthy) => manager_is_healthy

\* C14 - Consumer gone: after the consumer has dropped the receiving end of
\* the output channel, the failing send is detected and the read loop stops
\* (no further lines are read and no restart happens), without an error:
\* the step that reads a line and finds the receiver gone does not leave
\* the loop reading, and ends start() with Ok(()).
C14_ConsumerGoneStopsLoop ==
    [][ ( /\ variant = "manager" /\ rx_closed
          /\ pc = "reading" /\ pipe # <<>> /\ line_seen' /\ attempts' = 0
          /\ count_at_line' = restart_count /\ pipe' = Tail(pipe)
          /\ pc' \in {"reading", "idle"} ) =>
            (pc' = "idle" /\ start_result'.kind = "Ok") ]_vars

\* The lines of a sequence are in the order the processes wrote them: line
\* numbers count the writes, so they strictly increase.
InWriteOrder(q) == \A i, j \in 1..Len(q) : i < j => q[i] < q[j]

\* C15 - Ordering: within one manager the sequence of lines a consumer
\* receives is a subsequence of the lines written to stdout, in the same
\* relative order, across any number of restarts: lines may be dropped but
\* are never reordered or duplicated.  The same holds of what is still on
\* its way: received lines, then queued lines, then lines in the pipe.
C15_Ordering ==
    /\ InWriteOrder(received \o output_q \o pipe)
    /\ \A i \in 1..Len(received) : received[i] \in 1..produced
C15_Witness ==
    /\ variant = "manager" /\ received = <<1, 2>> /\ count_at_line = 1
    /\ line_seen /\ output_q = <<>>

\* C16 - A shutdown signal received by the read loop is a non-crash outcome:
\* start() returns Ok(()), restart_count is not incremented, no backoff
\* sleep and no respawn follow, and ShutdownRequested is never returned to
\* the caller of start() (nor remembered as the error of a crash).  Checked
\* under SpecSignalled.
C16_ShutdownIsNotACrash ==
    /\ [](start_result.kind \in {"none", "Ok", "MaxRestartsExceeded"})
    /\ [](last_error.kind # "ShutdownRequested")
    /\ [](start_result.last_error.kind # "ShutdownRequested")
    /\ [][ (pc = "reading" /\ pc' = "idle") =>
              /\ shutdown_sent
              /\ start_result'.kind = "Ok"
              /\ restart_count' = restart_count
              /\ attempts' = attempts /\ delays' = delays
              /\ newproc' = newproc /\ ~is_healthy' ]_vars
    /\ [][ (pc = "reading" /\ restart_count' > restart_count) =>
              last_error'.kind \in {"ProcessExited", "IoError"} ]_vars
C16_Witness ==
    /\ variant = "manager" /\ pc = "idle" /\ start_result.kind = "Ok"
    /\ shutdown_sent /\ restart_count = 1 /\ delays = <<1>> /\ attempts = 2
    /\ ~is_healthy /\ child = "Some"

\* The wait of stop() ends: stop() returns.
StopReturns == pc = "stop_wait" /\ pc' = "idle"

\* C17 (as stated) - Termination escalation: stop() on a manager that owns a
\* child first issues the graceful terminate request and waits at most
\* shutdown_timeout; the forceful kill is issued if and only if the process
\* has not exited within shutdown_timeout; on every path stop() returns
\* success and leaves the manager with no child handle and the health flag
\* false.
C17_TerminationEscalation ==
    /\ [](pc = "stop_wait" => stop_signals = {"SIGTERM"})
    /\ [][ StopReturns =>
              /\ ("SIGKILL" \in stop_signals') <=> (proc = "running")
              /\ stop_result' = "Ok" /\ child' = "None" /\ ~is_healthy' ]_vars

\* C17 (amended) - The same, except that the terminate request is issued
\* only to a child whose exit status has not been collected yet: a child the
\* health check found exited has no pid any more and gets no signal.
C17_EscalationUnlessReaped ==
    /\ [](pc = "stop_wait" =>
            stop_signals = IF proc = "reaped" THEN {} ELSE {"SIGTERM"})
    /\ [][ StopReturns =>
              /\ ("SIGKILL" \in stop_signals') <=> (proc = "running")
              /\ ("SIGTERM" \in stop_signals') <=> (proc # "reaped")
              /\ stop_result' = "Ok" /\ child' = "None" /\ ~is_healthy' ]_vars
C17_Witness ==
    /\ variant = "manager" /\ pc = "idle" /\ stop_result = "Ok"
    /\ stop_signals = {"SIGTERM", "SIGKILL"}
    /\ child = "None" /\ ~is_healthy /\ proc = "none"

\* The manager's operation in progress is suspended: in the backoff sleep,
\* in the select! of read_loop, or in the wait of stop().
AtSuspensionPoint == pc \in {"backoff", "reading", "stop_wait"}

\* C18 - The guard around the adapter's optional manager handle is held only
\* for short non-suspending sections: no task holds it across a suspension
\* point such as a stream read, a backoff sleep, a process wait, or the
\* whole supervision loop.
C18_GuardNotHeldAcrossSuspension ==
    (variant = "bloodbank" /\ AtSuspensionPoint) => lock = "free"

CallDone == variant = "call" /\ call_pc = "done"

\* C19 - call() maps each one-shot outcome to exactly one result: exit
\* success within the deadline gives Ok(captured stdout); a non-zero exit
\* gives ProcessExited carrying the exit code and the captured stderr; an
\* absent executable gives CliNotFound; any other spawn failure gives
\* SpawnFailed; call() never retries.  Captured output is returned as text,
\* decoded with from_utf8_lossy.
C19_CallOutcomes ==
    /\ variant = "call" => call_spawns <= 1
    /\ CallDone =>
        /\ call_spawns = 1
        /\ call_cmd.spawn = "NotFound" =>
              call_result = CallResult("CliNotFound", 0, <<"command">>, <<>>)
        /\ call_cmd.spawn = "OtherError" => call_result.kind = "SpawnFailed"
        /\ (call_cmd.spawn = "ok" /\ call_result.kind # "Timeout") =>
              IF call_cmd.status = [signalled |-> FALSE, code |-> 0]
              THEN call_result =
                     CallResult("Ok", 0, <<>>, from_utf8_lossy(call_cmd.stdout))
              ELSE /\ call_result.kind = "ProcessExited"
                   /\ call_result.text = from_utf8_lossy(call_cmd.stderr)
                   /\ call_result.output = <<>>
                   /\ ~call_cmd.status.signalled =>
                         call_result.code = call_cmd.status.code
        /\ call_result.kind \in {"Ok", "ProcessExited", "CliNotFound",
                                 "SpawnFailed", "Timeout"}
C19_Witness ==
    /\ CallDone /\ call_result.kind = "ProcessExited" /\ call_result.code = 2
    /\ call_result.text = <<"text", "U+FFFD">>
    /\ call_cmd.stdout = <<"text">>

\* C20 - Call timeout: when the command has not exited within call_timeout,
\* call() returns a Timeout error carrying the operation and the configured
\* duration, and returns no output at all (never partial stdout).
C20_CallTimeout ==
    /\ [][ (variant = "call" /\ call_pc = "running" /\ call_pc' = "done") =>
              call_result' =
                CallResult("Timeout", call_timeout_secs, Operation, <<>>) ]_vars
    /\ [](CallDone /\ call_result.kind = "Timeout" =>
            call_result.output = <<>> /\ call_cmd.spawn = "ok")
C20_Witness ==
    /\ CallDone /\ call_result.kind = "Timeout" /\ call_result.code = 1
    /\ call_captured.stdout = <<"text">> /\ call_cmd.stdout = <<"text", "text">>
    /\ call_result.output = <<>>

\* C21 - Resource safety net: when a manager that owns a child process is
\* destroyed without an explicit stop(), in any state of the lifecycle, the
\* owned process is forcefully terminated; no child outlives its manager.
\* A manager is destroyed by its owner (pc = "dropped") or by subscribe(),
\* which replaces the manager in the adapter's slot.
C21_NoChildOutlivesManager ==
    /\ [](pc = "dropped" => LiveChildren = 0)
    /\ [][ (variant = "bloodbank" /\ slot_mgr' # slot_mgr) =>
              (proc' # "running" /\ ~newproc') ]_vars
    /\ [][ (pc # "dropped" /\ pc' = "dropped" /\ child = "Some"
            /\ proc = "running") => "SIGKILL" \in stop_signals' ]_vars
C21_Witness ==
    /\ variant = "manager" /\ pc = "dropped" /\ child = "Some"
    /\ stop_signals = {"SIGKILL"} /\ LiveChildren = 0
    /\ received # <<>>


\* The events of the lines that parse, in the order of the lines.
ParsedEvents(lines) ==
    LET parsing == SelectSeq(lines, LAMBDA l : parse_event(l).tag = "Event")
    IN  [i \in 1..Len(parsing) |-> parse_event(parsing[i]).event]
\* The parsing task takes a line that does not parse.
ParseFailure ==
    /\ raw_taken' # raw_taken
    /\ parse_event(Head(raw_q)).tag = "ParseError"

\* C22 - Translation layer: in subscribe_events, a raw line that fails to
\* parse is discarded and every later line that parses is still forwarded,
\* in order, on the event channel; a parse failure never ends the parsing
\* task, never closes the event channel, and never changes the manager's
\* restart_count.  While the task runs, the events forwarded (with the one
\* being sent) are exactly the events of the lines taken that parse, in
\* order; the task ends only when the raw channel is closed and empty or
\* the event receiver is gone.
C22_ParseFailureSkipsLine ==
    /\ [](ev_pc \in {"recv", "send"} =>
            ParsedEvents(raw_taken) =
              forwarded \o (IF ev_pc = "send" THEN <<ev_pending>> ELSE <<>>))
    /\ [](event_rx_open =>
            \E k \in 0..Len(forwarded) :
               event_q = SubSeq(forwarded, k + 1, Len(forwarded)))
    /\ [][ ParseFailure =>
             /\ ev_pc' = "recv" /\ ~event_channel_closed'
             /\ forwarded' = forwarded /\ event_q' = event_q
             /\ restart_count' = restart_count ]_vars
    /\ [][ (ev_pc # "done" /\ ev_pc' = "done") =>
             \/ raw_q = <<>> /\ ~raw_tx_open
             \/ ~event_rx_open ]_vars
C22_Witness ==
    /\ variant = "events" /\ ev_pc = "recv" /\ ~event_channel_closed
    /\ Len(raw_taken) = 3
    /\ raw_taken[1].kind = "known" /\ raw_taken[2].kind = "invalid_json"
    /\ raw_taken[3].kind = "known"
    /\ forwarded = <<[type |-> "Known", n |-> 1], [type |-> "Known", n |-> 3]>>
    /\ event_rx_open


\* C23 - Test double replay: every subscribe() on MockAdapter returns a
\* freshly created receiver that yields exactly the currently configured
\* lines, all of them, in the configured order, and then closes, for any
\* number of configured lines; no process is spawned.  The lines received,
\* those queued and those still to send make up the lines configured when
\* subscribe() was called, and when the receiver finds the channel closed
\* it has received them all.
C23_MockReplay ==
    /\ [](mock_rx_open =>
            mock_received \o mock_q \o replay_rest = replay_lines)
    /\ [](mock_rx_closed => mock_received = replay_lines)
    /\ [][ subscribe_count' = subscribe_count + 1 =>
             /\ replay_lines' = subscribe_lines
             /\ mock_rx_open' /\ mock_q' = <<>> /\ mock_received' = <<>> ]_vars
    /\ [](variant \in {"mock", "replay"} =>
            LiveChildren = 0 /\ attempts = 0 /\ call_spawns = 0)
C23_Witness ==
    /\ variant = "replay" /\ mock_rx_closed
    /\ replay_lines = LongLines /\ mock_received = LongLines
    /\ subscribe_count = 1


\* The invocations after the last reset() (all of them when there was none).
RECURSIVE SinceReset(_)
SinceReset(h) ==
    IF h = <<>> THEN <<>>
    ELSE IF h[Len(h)].op = "reset" THEN <<>>
    ELSE Append(SinceReset(SubSeq(h, 1, Len(h) - 1)), h[Len(h)])
Invocations(h, op) == SelectSeq(SinceReset(h), LAMBDA e : e.op = op)
MostRecentArgs(h, op) ==
    LET s == Invocations(h, op)
    IN  IF s = <<>> THEN <<>> ELSE s[Len(s)].args

\* C24 - Test double counters: after any sequence of operations on
\* MockAdapter, call_count, subscribe_count and stop_count equal the number
\* of call, subscribe and stop invocations since construction or the last
\* reset(), and last_call_args / last_subscribe_args equal the arguments of
\* the most recent call / subscribe since then (empty if none).
C24_MockCounters ==
    variant \in {"mock", "replay"} =>
       /\ call_count = Len(Invocations(mock_history, "call"))
       /\ subscribe_count = Len(Invocations(mock_history, "subscribe"))
       /\ stop_count = Len(Invocations(mock_history, "stop"))
       /\ last_call_args = MostRecentArgs(mock_history, "call")
       /\ last_subscribe_args = MostRecentArgs(mock_history, "subscribe")
C24_Witness ==
    /\ variant = "mock" /\ Len(mock_history) = 3
    /\ mock_history[1].op = "subscribe" /\ mock_history[1].args # <<>>
    /\ mock_history[2].op = "reset"
    /\ mock_history[3].op = "call" /\ mock_history[3].args # <<>>
    /\ call_count = 1 /\ subscribe_count = 0
    /\ last_subscribe_args = <<>> /\ last_call_args = mock_history[3].args


\* C25 - When the consumer of a subscription falls behind and the channel
\* is full, the oldest queued messages are dropped to make room, so the
\* channel always holds the most recent lines: a line read while the channel
\* holds channel_capacity lines pushes out the line at the head of the queue
\* and is queued at its end.
C25_OldestDropped ==
    [][ (LineRead /\ ~rx_closed /\ Len(output_q) = channel_capacity) =>
           output_q' = Append(Tail(output_q), Head(pipe)) ]_vars


\* C26 - start() returns Ok(()) when the subprocess exits normally, and
\* also returns Ok(()) after max restarts have been exceeded: the step that
\* finds the ceiling reached ends start() with Ok(()), and so does the step
\* of the read loop that finds the process has exited with code 0.
C26_StartReturnsOk ==
    /\ [][ (pc = "loop_top" /\ pc' = "idle") =>
              start_result'.kind = "Ok" ]_vars
    /\ [][ (pc = "reading" /\ pc' # "reading" /\ ~shutdown_sent
            /\ proc = "exited" /\ exit_code = Some(0)) =>
              (pc' = "idle" /\ start_result'.kind = "Ok") ]_vars


\* C27 - subscribe() / subscribe_events() return an error to the caller
\* when the subprocess cannot be started: Err(CliNotFound) if the command is
\* not in PATH, Err(SpawnFailed) if the spawn fails, and an error when max
\* restarts are exceeded.  A caller holds a receiver (caller_rx # 0) only if
\* subscribe() returned Ok, so no caller holds one from a subscribe() whose
\* manager failed to spawn or ended with MaxRestartsExceeded.
C27_SubscribeReportsStartFailure ==
    /\ (variant = "bloodbank"
        /\ last_error.kind \in {"CliNotFound", "SpawnFailed"}) => caller_rx = 0
    /\ (variant = "bloodbank"
        /\ start_result.kind = "MaxRestartsExceeded") => caller_rx = 0


\* What a history of bus operations leaves pending for a pane: the value of
\* the most recent notify on the pane, unless a get or a clear on the pane
\* came after it.
RECURSIVE Pending(_, _)
Pending(h, pane) ==
    IF h = <<>> THEN None
    ELSE LET e == h[Len(h)]
         IN  IF e.pane = pane /\ e.op = "notify" THEN e.value
             ELSE IF e.pane = pane /\ e.op \in {"get", "clear"} THEN None
             ELSE Pending(SubSeq(h, 1, Len(h) - 1), pane)
\* A bus operation is invoked in this step; LastBusOp is the operation.
BusOpInvoked == bus_history' # bus_history
LastBusOp == bus_history'[Len(bus_history')]

\* C28 - NotificationBus keeps at most one pending notification per pane:
\* after any sequence of notify_pane, get_notification and
\* clear_notification calls, get_notification(p) returns the notification
\* of the most recent notify_pane(p) that was not followed by a get or clear
\* on p (last write wins) and removes it, so an immediately following
\* get_notification(p) returns None; operations on one pane never change
\* another pane's pending notification, and has_notification /
\* peek_notification change nothing.  Checked under SpecBus.
C28_LastWriteWins ==
    /\ [](\A pane \in Panes :
            pending_notifications[pane] = Pending(bus_history, pane))
    /\ [][ (BusOpInvoked /\ LastBusOp.op = "get") =>
             /\ bus_result' = Pending(bus_history, LastBusOp.pane)
             /\ pending_notifications'[LastBusOp.pane] = None ]_vars
    /\ [][ ( /\ BusOpInvoked /\ LastBusOp.op = "get" /\ bus_history # <<>>
             /\ bus_history[Len(bus_history)] = LastBusOp ) =>
             bus_result' = None ]_vars
    /\ [][ BusOpInvoked =>
             \A pane \in Panes \ {LastBusOp.pane} :
                pending_notifications'[pane] = pending_notifications[pane]
         ]_vars
    /\ [][ (BusOpInvoked /\ LastBusOp.op \in {"has", "peek"}) =>
             pending_notifications' = pending_notifications ]_vars
C28_Witness ==
    /\ variant = "bus" /\ Len(bus_history) = 3
    /\ bus_history[1] = BusOp("notify", <<"Terminal", 1>>, "error")
    /\ bus_history[2] = BusOp("notify", <<"Terminal", 1>>, "success")
    /\ bus_history[3] = BusOp("get", <<"Terminal", 1>>, None)
    /\ bus_result = "success"
    /\ pending_notifications[<<"Terminal", 1>>] = None


\* C29 - Backoff precedes every respawn: every spawn attempt made while
\* restart_count > 0 is preceded by a sleep of min(2^(restart_count-1), 8)
\* seconds computed from the counter value at that moment, a spawn attempt
\* with restart_count = 0 is made without delay, and every respawn uses the
\* same argument vector as the first spawn of that start() call.  A spawn
\* attempt is made from the position "spawn" only; that position is entered
\* from the ceiling check when the count is 0 and otherwise from a sleep of
\* the capped power of the count, which the count does not change during.
\* Checked under SpecRespawn.
C29_BackoffPrecedesRespawn ==
    /\ [][ (pc # "spawn" /\ pc' = "spawn") =>
             \/ pc = "loop_top" /\ restart_count = 0 /\ delays' = delays
             \/ /\ pc = "backoff" /\ restart_count > 0 /\ delays # <<>>
                /\ delays[Len(delays)] = CappedPower(restart_count) ]_vars
    /\ [][ (pc # "backoff" /\ pc' = "backoff") =>
             /\ pc = "loop_top" /\ restart_count > 0
             /\ delays' = Append(delays, CappedPower(restart_count)) ]_vars
    /\ [][ (pc \in {"loop_top", "backoff"} /\ pc' \in {"backoff", "spawn"}) =>
             restart_count' = restart_count ]_vars
    /\ [][ attempts' = attempts + 1 =>
             (pc = "spawn" /\ start_args \in spawned_args') ]_vars
    /\ [](spawned_args \subseteq {start_args})
C29_Witness ==
    /\ variant = "manager" /\ pc = "reading" /\ restart_count = 2
    /\ start_count = 0 /\ attempts = 3 /\ delays = <<1, 2>>
    /\ start_args = SubscribeEventsArgs
    /\ spawned_args = {SubscribeEventsArgs}


\* A spawn attempt fails; the errors a failed spawn gives.
SpawnFailure == pc = "spawn" /\ pc' = "loop_top"
SpawnErrors == {"CliNotFound", "SpawnFailed"}

\* C30 - A spawn failure (CliNotFound or SpawnFailed) inside start() counts
\* as a crash: it increments restart_count by 1, never sets the health flag
\* true, and is followed by backoff and another spawn attempt or, at the
\* ceiling, by MaxRestartsExceeded.  The failing step leaves the flag and
\* the stored child as they are and remembers the error; the next step of
\* the loop either returns MaxRestartsExceeded carrying that error or goes
\* into the backoff sleep, from which the only way on is a spawn attempt.
C30_SpawnFailureIsCrash ==
    /\ [][ SpawnFailure =>
             /\ restart_count' = restart_count + 1
             /\ is_healthy' = is_healthy
             /\ last_error'.kind \in SpawnErrors
             /\ child' = child /\ ~newproc' ]_vars
    /\ [][ ( /\ pc = "loop_top" /\ pc' # "loop_top"
             /\ last_error.kind \in SpawnErrors ) =>
             \/ /\ ceiling_reached(restart_count)
                /\ pc' = "idle"
                /\ start_result' = [kind |-> "MaxRestartsExceeded",
                                    attempts |-> restart_count,
                                    last_error |-> last_error]
             \/ /\ ~ceiling_reached(restart_count)
                /\ restart_count >= 1
                /\ pc' = "backoff"
                /\ delays' = Append(delays, CappedPower(restart_count))
         ]_vars
    /\ [][ (pc = "backoff" /\ pc' # "backoff") =>
             pc' \in {"spawn", "dropped"} ]_vars
C30_Witness ==
    /\ variant = "manager" /\ max_restarts = 2 /\ pc = "idle"
    /\ start_result.kind = "MaxRestartsExceeded"
    /\ start_result.attempts = 2
    /\ start_result.last_error.kind = "CliNotFound"
    /\ attempts = 2 /\ delays = <<1>> /\ ~is_healthy /\ child = "None"


\* ------------------------------------------------------------- SpecLoop
\* A manager whose read_loop dispatches are recorded.
InitLoop ==
    /\ variant = "manager" /\ call_timeout_secs = DefaultCallTimeout
    /\ max_restarts \in 0..MaxRestartsBound
    /\ channel_capacity \in 1..MaxCapacity
    /\ ManagerNew /\ produced = 0 /\ rx_closed = FALSE
    /\ dispatched = NoDispatch
    /\ AdapterIdle /\ MockIdle /\ BackoffIdle /\ CallIdle
    /\ EventsIdle /\ BusIdle

NextLoop ==
    \/ ManagerStep
    \/ client_start \/ client_stop
    \/ consumer_recv \/ consumer_drops

SpecLoop == InitLoop /\ [][NextLoop]_vars

\* The step is a dispatch of the given select! branch.
Dispatch(branch) ==
    /\ dispatched'.branch = branch
    /\ dispatched'.turn # dispatched.turn


\* C31: no event on the stderr stream (a line, end of stream, a read
\* error) forwards anything to the output channel, ends the read loop, or
\* changes restart_count or the health flag.
C31_StderrChangesNothing ==
    [][Dispatch("stderr") =>
          /\ pc = "reading" /\ pc' = "reading"
          /\ UNCHANGED <<output_q, received, restart_count, is_healthy,
                         last_error, start_result>>]_vars
C31_Witness ==
    /\ dispatched.branch = "stderr" /\ dispatched.event = "err"
    /\ pc = "reading" /\ restart_count > 0 /\ output_q # <<>>


\* The crash outcome of a health-check tick that found the process ended.
ExitedAtTick(code) ==
    Error("ProcessExited", code, "Process exited during health check")

EndOfStream == Error("ProcessExited", 0, "Process ended unexpectedly")

ReturnsMaxRestartsExceeded ==
    /\ pc = "loop_top" /\ pc' = "idle"
    /\ start_result'.kind = "MaxRestartsExceeded"

\* C34: every MaxRestartsExceeded returned by start() has attempts equal to
\* max_restarts, which is restart_count at the ceiling check, and the flag
\* is false when it is returned; its last_error is the most recent crash
\* error of this start() call, or "Unknown error" when the call found the
\* counter at the ceiling before any crash.
C34_MaxRestartsExceededFields ==
    [][ReturnsMaxRestartsExceeded =>
          /\ start_result'.attempts = max_restarts
          /\ start_result'.attempts = restart_count
          /\ ~is_healthy'
          /\ start_result'.last_error =
               IF last_error = NoError THEN Error("Unknown error", 0, "")
               ELSE last_error
          /\ (last_error = NoError) <=> (spawned_args = {})]_vars
C34_Witness ==
    /\ pc = "idle" /\ start_result.kind = "MaxRestartsExceeded"
    /\ start_result.last_error = Error("Unknown error", 0, "")
    /\ max_restarts > 0 /\ terminal
\* C34 as stated: last_error is always the text of a crash error.
C34_LastErrorIsCrashError ==
    [][ReturnsMaxRestartsExceeded =>
          /\ start_result'.attempts = max_restarts
          /\ ~is_healthy'
          /\ last_error # NoError
          /\ start_result'.last_error = last_error]_vars


\* ------------------------------------------------------------ SpecCancel
\* The shutdown channel signalled as in SpecSignalled, with the dispatches
\* of read_loop recorded.
NextCancel ==
    \/ ManagerStep
    \/ client_start \/ client_stop
    \/ shutdown_signalled

\* Cancellation does not involve the output channel: one capacity.
InitCancel == InitLoop /\ channel_capacity = MaxCapacity

SpecCancel == InitCancel /\ [][NextCancel]_vars

\* stop() is called, and returns at once when the manager holds no child.
StopCalled ==
    /\ pc = "idle"
    /\ \/ pc' = "stop_wait"
       \/ pc' = "idle" /\ stop_result' = "Ok" /\ stop_result # "Ok"

\* C35: cancellation is single-shot.  Only start() creates a shutdown
\* sender, a send uses it up and stop() leaves none behind, so that a
\* second stop() has nothing to send; and the dispatch of the shutdown
\* branch ends the read loop: start() returns and that loop dispatches
\* no stdout line, stderr line or health-check tick after it.
C35_CancellationIsSingleShot ==
    [][/\ (shutdown_tx' /\ ~shutdown_tx) => (pc = "idle" /\ pc' = "loop_top")
       /\ (shutdown_sent' /\ ~shutdown_sent) => (shutdown_tx /\ ~shutdown_tx')
       /\ StopCalled => ~shutdown_tx'
       /\ Dispatch("shutdown") => (pc' = "idle" /\ start_result'.kind = "Ok")
       /\ dispatched.branch = "shutdown" =>
             \/ dispatched' = dispatched
             \/ dispatched' = NoDispatch /\ pc = "spawned"]_vars
C35_Witness ==
    /\ dispatched.branch = "shutdown" /\ pc = "idle"
    /\ start_result.kind = "Ok" /\ stop_result = "Ok" /\ ~shutdown_tx
    /\ pipe = <<>> /\ produced > 0


\* ----------------------------------------------------------- SpecPattern
\* A manager whose process writes at least one stdout line that is read in
\* every run before it crashes, and whose spawns succeed: no crash outcome
\* comes before a line of the run was read.
line_before_crash == ManagerStep /\ (CrashStep => line_since_crash)

NextPattern == line_before_crash \/ client_start \/ consumer_recv

SpecPattern == InitManager /\ [][NextPattern]_vars

\* The backoff sleeps made since the last line was read are all of 1 second.
BackoffsOfOneSecond == \A i \in 1..Len(delays) : delays[i] = 1

InitWide ==
    /\ variant = "manager" /\ call_timeout_secs = DefaultCallTimeout
    /\ max_restarts \in {0, 1, U8Max}
    /\ channel_capacity = MaxCapacity
    /\ ManagerNew /\ LoopIdle /\ produced = 0 /\ rx_closed = FALSE
    /\ AdapterIdle /\ MockIdle /\ BackoffIdle /\ CallIdle
    /\ EventsIdle /\ BusIdle

NextWide ==
    \/ run_with_restart_top \/ backoff_elapsed \/ spawn_subprocess
    \/ store_child
    \/ read_stdout_eof \/ health_check
    \/ proc_closes_stdout \/ proc_exits
    \/ client_start \/ client_reset_restart_count

SpecWide == InitWide /\ [][NextWide]_vars

\* C37: in every reachable state of a manager 0 <= restart_count <=
\* max_restarts, up to the largest max_restarts; a spawn attempt is made
\* only when restart_count < max_restarts, and the 8-bit counter never
\* wraps: it goes down only by being set to 0, never at a crash.
C37_CounterWithinCeiling ==
    /\ [](restart_count \in 0..max_restarts)
    /\ [](pc \in {"backoff", "spawn"} => restart_count < max_restarts)
    /\ [][attempts' > attempts => restart_count < max_restarts]_vars
    /\ [][restart_count' < restart_count =>
            (restart_count' = 0 /\ ~CrashStep)]_vars
C37_Witness ==
    /\ max_restarts = U8Max /\ restart_count = U8Max
    /\ attempts = U8Max /\ pc = "idle"
    /\ start_result.kind = "MaxRestartsExceeded"


\* try_send would fail: the receiver is gone or the queue is full.
Undeliverable == rx_closed \/ Len(output_q) >= channel_capacity

\* C38: a stdout line that is read and then discarded, because the output
\* channel is full or closed, still resets restart_count to zero.
C38_ResetWithoutDelivery ==
    [][(Dispatch("stdout") /\ dispatched'.event = "line" /\ Undeliverable) =>
          /\ restart_count' = 0
          /\ pipe' = Tail(pipe)
          /\ UNCHANGED <<output_q, received, pc>>]_vars
C38_Witness ==
    /\ dispatched.branch = "stdout" /\ dispatched.event = "line"
    /\ pc = "reading" /\ restart_count = 0 /\ count_at_line = 1
    /\ channel_capacity = 1 /\ output_q = <<1>> /\ received = <<>>
    /\ ~rx_closed /\ produced = 2 /\ pipe = <<>> /\ proc = "running"


\* C39: no stdout line is lost to crash detection: when a process has
\* written lines and exited, a health-check tick that turns the exit into a
\* crash outcome finds every one of those lines already read.
C39_NoLineLostToCrashDetection ==
    [][(Dispatch("tick") /\ proc = "exited") => pipe = <<>>]_vars


\* C40: per BloodbankAdapter at most one supervision loop runs at any time:
\* start() runs only inside a task that holds the manager guard, which has
\* one holder, and subscribe() needs that guard before it creates a manager
\* or spawns a task; so a subscribe() issued while a loop is running waits,
\* and the process of the running loop is the only one.
C40_OneSupervisionLoop ==
    variant = "bloodbank" =>
        /\ InStart => lock = "task"
        /\ (InStart /\ SubscribeWaiting) => slot_mgr = mgr_ctr
        /\ lock \in {"free", "stop"} => ~newproc
C40_Witness ==
    /\ variant = "bloodbank" /\ pc = "reading" /\ lock = "task"
    /\ SubscribeWaiting /\ proc = "running" /\ mgr_ctr = 2

====
